---------------------------- MODULE Spec2Model ----------------------------
(***************************************************************************)
(* Model of the domain-fi scoring core: the rarity scorer                  *)
(* (src/lib/scoring.ts), the trending ranker                               *)
(* (src/lib/trending/algorithms/real-data-trending.ts) and the search      *)
(* boundary in front of the scorer (components/Layout/SearchSection.tsx,   *)
(* lib/doma-api.ts).                                                       *)
(*                                                                         *)
(* Representation.                                                         *)
(*  - A JavaScript string is a sequence of one-character strings, so that  *)
(*    split, toLowerCase, includes and the regular expressions are         *)
(*    computed character by character.                                     *)
(*  - An optional value (undefined / null / absent field) is <<>>, a       *)
(*    present value v is <<v>>.                                            *)
(*  - Time is counted in whole days; new Date(x).getTime() of a timestamp  *)
(*    is its day number and Date.now() is the variable now.                *)
(*  - A fractional factor of the scorer is an exact rational kept as an    *)
(*    integer count of 1/One, where One is a common multiple of the        *)
(*    denominators 20, 10 and 365 that occur; Math.round is half-up        *)
(*    rounding on these rationals.  (IEEE doubles can differ from the      *)
(*    exact value when the exact value is a tie k + 1/2.)                  *)
(***************************************************************************)
EXTENDS Integers, Sequences, FiniteSets, TLC

VARIABLES
    now,          \* Date.now(), in days
    scoreArgs,    \* arguments of the latest calculateDomainScore call
    scoreResult,  \* its return value
    scoreAt,      \* the time of that call
    firstResult,  \* return value of the first call made with scoreArgs
    firstAt,      \* the time of that first call
    domains,      \* the array handed to RealDataTrendingAlgorithm.execute
    limit,        \* config.limit of the latest execute call
    ranked,       \* the array execute returned
    rankedAt,     \* the time of that call
    rankedAgain,  \* the array a second execute call with the same arguments returned
    topEight,     \* the array UltraSimpleTrendingAlgorithm.execute returned
    rankPc,       \* head / tail / one while the caller assembles domains, done after
                  \* execute, later when time has passed since, again after a second
                  \* call, simple after the ultra simple algorithm
    searchQuery,  \* SearchSection state: text of the input box
    isLoading,    \* SearchSection state
    error,        \* SearchSection state: error message or <<>> (null)
    searchPc,     \* position of handleSearch: idle, or fetching at its await
    submitted,    \* the searchQuery captured by the running handleSearch
    fetchedName,  \* the name handed to the subgraph queries
    scored,       \* the query and name calculateDomainScore last ran for, or <<>>
    domainData,   \* what onDomainData received last, or <<>>
    trendPc,      \* fetchTrendingDomains: idle, awaiting the efficient service, or
                  \* the way it ended: api, noKey, serviceFailed, rankingFailed
    trendLimit,   \* its argument limit
    efficientDomains, \* what the efficient service answered, or <<>>
    trendResponse, \* how its promise settled, or <<>> while it has not
    dataPc,       \* fetchDomainData: idle, waiting at Promise.allSettled, settled
    formattedName, \* the name its four queries are made with
    results,      \* the state of each of the four queries
    dataResult,   \* how its promise settled, or <<>> while it has not
    effPc,        \* fetchEfficientTrendingDomains: awaiting its query, done, failed
    recentListings,    \* data.recentListings.items of the answer
    domainsWithOffers, \* data.domainsWithOffers.items
    listedDomains,     \* data.listedDomains.items
    effLimit,     \* its argument limit
    effResult,    \* how its promise settled, or <<>> while it has not
    pageQuery,    \* AnalyticsPage state searchQuery
    pageData,     \* AnalyticsPage state domainData, or <<>> (null)
    pageLoading,  \* AnalyticsPage state isLoading
    pageError,    \* AnalyticsPage state error, or <<>> (null)
    urlTimer,     \* the 100 ms timer of the mount effect: unmounted, armed, none
    inFlight,     \* the handleSearchForDomain calls waiting at their await
    started       \* the domains of the calls started so far, in order

vars == <<now, scoreArgs, scoreResult, scoreAt, firstResult, firstAt,
          domains, limit, ranked, rankedAt, rankedAgain, topEight, rankPc,
          searchQuery, isLoading, error, searchPc, submitted, fetchedName,
          scored, domainData,
          trendPc, trendLimit, efficientDomains, trendResponse,
          dataPc, formattedName, results, dataResult,
          effPc, recentListings, domainsWithOffers, listedDomains, effLimit, effResult,
          pageQuery, pageData, pageLoading, pageError, urlTimer, inFlight, started>>

scoreVars == <<scoreArgs, scoreResult, scoreAt, firstResult, firstAt>>
rankVars == <<domains, limit, ranked, rankedAt, rankedAgain, topEight, rankPc>>
searchVars == <<searchQuery, isLoading, error, searchPc, submitted, fetchedName,
          scored, domainData>>
trendVars == <<trendPc, trendLimit, efficientDomains, trendResponse>>
dataVars == <<dataPc, formattedName, results, dataResult>>
effVars == <<effPc, recentListings, domainsWithOffers, listedDomains, effLimit, effResult>>
pageVars == <<pageQuery, pageData, pageLoading, pageError, urlTimer, inFlight, started>>
serviceVars == <<trendVars, dataVars, effVars, pageVars>>
coreVars == <<now, scoreVars, rankVars, searchVars>>

-----------------------------------------------------------------------------
(* Small helpers *)

Max(a, b) == IF a >= b THEN a ELSE b
Min(a, b) == IF a <= b THEN a ELSE b

undefined == <<>>
Some(v) == <<v>>
IsPresent(o) == o # <<>>
\* a || d  for an optional number: undefined and 0 are both falsy
OrElse(o, d) == IF o = <<>> THEN d ELSE IF o[1] = 0 THEN d ELSE o[1]

Rep(c, n) == [i \in 1..n |-> c]

-----------------------------------------------------------------------------
(* Strings *)

LowerSeq == <<"a", "b", "c", "d", "e", "f", "g", "h", "i", "j", "k", "l", "m", "n", "o", "p", "q", "r", "s", "t", "u", "v", "w", "x", "y", "z">>
UpperSeq == <<"A", "B", "C", "D", "E", "F", "G", "H", "I", "J", "K", "L", "M", "N", "O", "P", "Q", "R", "S", "T", "U", "V", "W", "X", "Y", "Z">>
LowerLetters == {LowerSeq[i] : i \in 1..Len(LowerSeq)}
UpperLetters == {UpperSeq[i] : i \in 1..Len(UpperSeq)}
Digits == {"0", "1", "2", "3", "4", "5", "6", "7", "8", "9"}
Whitespace == {" "}

ToLowerChar(c) ==
    IF c \in UpperLetters
    THEN LowerSeq[CHOOSE i \in 1..Len(UpperSeq) : UpperSeq[i] = c]
    ELSE c

\* String.prototype.toLowerCase
toLowerCase(s) == <<>> \o [i \in 1..Len(s) |-> ToLowerChar(s[i])]

\* the position of the first sep in s at or after index i, 0 when there is none
RECURSIVE IndexFrom(_, _, _)
IndexFrom(s, sep, i) ==
    IF i > Len(s) THEN 0
    ELSE IF s[i] = sep THEN i
    ELSE IndexFrom(s, sep, i + 1)

\* String.prototype.split(sep) for a one-character separator
RECURSIVE split(_, _)
split(s, sep) ==
    LET k == IndexFrom(s, sep, 1) IN
    IF k = 0 THEN <<s>>
    ELSE <<SubSeq(s, 1, k - 1)>> \o split(SubSeq(s, k + 1, Len(s)), sep)

\* String.prototype.includes for a one-character needle
includesChar(s, c) == \E i \in 1..Len(s) : s[i] = c

\* String.prototype.includes(term)
includes(s, term) ==
    \/ Len(term) = 0
    \/ \E i \in 1..(Len(s) - Len(term) + 1) :
          /\ s[i] = term[1]
          /\ SubSeq(s, i, i + Len(term) - 1) = term

\* String.prototype.trim
RECURSIVE trimStart(_)
trimStart(s) ==
    IF Len(s) > 0 /\ s[1] \in Whitespace THEN trimStart(Tail(s)) ELSE s
RECURSIVE trimEnd(_)
trimEnd(s) ==
    IF Len(s) > 0 /\ s[Len(s)] \in Whitespace THEN trimEnd(SubSeq(s, 1, Len(s) - 1)) ELSE s
trim(s) == trimEnd(trimStart(s))

\* /^[class]+$/.test(s)
AllIn(s, class) == Len(s) > 0 /\ \A i \in 1..Len(s) : s[i] \in class

-----------------------------------------------------------------------------
(* Rarity scorer: src/lib/scoring.ts *)

minLength == 3
maxLength == 23
maxDuration == 365

\* the value 1.0 of a fractional factor; every factor is a multiple of 1/One
One == (maxLength - minLength) * maxDuration
Tenths(t) == (t * One) \div 10

\* weights in hundredths
SCORING_WEIGHTS ==
    [LENGTH |-> 25, PATTERN |-> 20, TLD |-> 20, ACTIVITY |-> 25, EXPIRATION |-> 10]

TLD_RARITY ==
    { <<<<".", "s", "o", "l">>, Tenths(10)>>, <<<<".", "c", "o", "r", "e">>, Tenths(10)>>, <<<<".", "a", "p", "e">>, Tenths(10)>>,
      <<<<".", "c", "o", "m">>, Tenths(8)>>, <<<<".", "o", "r", "g">>, Tenths(8)>>, <<<<".", "n", "e", "t">>, Tenths(8)>>,
      <<<<".", "a", "p", "p">>, Tenths(6)>>, <<<<".", "d", "e", "v">>, Tenths(6)>>, <<<<".", "i", "o">>, Tenths(6)>>,
      <<<<".", "i", "n", "f", "o">>, Tenths(4)>>, <<<<".", "b", "i", "z">>, Tenths(4)>>, <<<<".", "c", "o">>, Tenths(4)>> }

\* TLD_RARITY[key]: the entry, or undefined
TldRarityAt(key) ==
    IF \E e \in TLD_RARITY : e[1] = key
    THEN Some((CHOOSE e \in TLD_RARITY : e[1] = key)[2])
    ELSE undefined

\* Math.round(x * 100) of a factor x
RoundPercent(x) == (200 * x + One) \div (2 * One)

\* a plausible slip: minLength left out of the normalisation
calculateLengthScoreFromZero(domainName) ==
    LET length == Len(domainName) IN
    Max(0, One - (length * One) \div (maxLength - minLength))

calculateLengthScore(domainName) ==
    LET length == Len(domainName) IN
    Max(0, One - ((length - minLength) * One) \div (maxLength - minLength))

\* a plausible slip: the label not lower-cased before the tests
calculatePatternScoreCaseSensitive(domainName) ==
    IF AllIn(domainName, LowerLetters) \/ AllIn(domainName, Digits) THEN Tenths(10)
    ELSE IF AllIn(domainName, LowerLetters \cup Digits) THEN Tenths(8)
    ELSE IF AllIn(domainName, LowerLetters \cup Digits \cup {"-"}) THEN Tenths(6)
    ELSE Tenths(3)

calculatePatternScore(domainName) ==
    LET name == toLowerCase(domainName) IN
    IF AllIn(name, LowerLetters) \/ AllIn(name, Digits) THEN Tenths(10)
    ELSE IF AllIn(name, LowerLetters \cup Digits) THEN Tenths(8)
    ELSE IF AllIn(name, LowerLetters \cup Digits \cup {"-"}) THEN Tenths(6)
    ELSE Tenths(3)

\* a plausible slip: the TLD looked up as written
calculateTLDScoreCaseSensitive(tld) ==
    LET e == TldRarityAt(tld) IN
    IF IsPresent(e) /\ e[1] # 0 THEN e[1] ELSE Tenths(5)

calculateTLDScore(tld) ==
    LET e == TldRarityAt(toLowerCase(tld)) IN
    IF IsPresent(e) /\ e[1] # 0 THEN e[1] ELSE Tenths(5)

\* a plausible slip: the activities counted although stats is missing
calculateActivityScoreWithoutStats(stats, activities) ==
    LET salesCount == IF IsPresent(stats) THEN stats[1].salesCount ELSE 0
        activityCount == IF IsPresent(activities) THEN Len(activities[1]) ELSE 0
    IN  IF salesCount >= 10 \/ activityCount >= 10 THEN Tenths(10)
        ELSE IF salesCount >= 3 \/ activityCount >= 3 THEN Tenths(7)
        ELSE IF salesCount >= 1 \/ activityCount >= 1 THEN Tenths(4)
        ELSE Tenths(2)

calculateActivityScore(stats, activities) ==
    IF ~IsPresent(stats) THEN Tenths(2)
    ELSE
      LET salesCount == stats[1].salesCount
          activityCount == IF IsPresent(activities) THEN Len(activities[1]) ELSE 0
      IN  IF salesCount >= 10 \/ activityCount >= 10 THEN Tenths(10)
          ELSE IF salesCount >= 3 \/ activityCount >= 3 THEN Tenths(7)
          ELSE IF salesCount >= 1 \/ activityCount >= 1 THEN Tenths(4)
          ELSE Tenths(2)

\* a plausible slip: the upper clamp Math.min(1, ...) left out
calculateExpirationScoreUnclamped(createdAt, t) ==
    LET daysSinceCreation == t - createdAt
        remainingDays == Max(0, maxDuration - daysSinceCreation)
    IN  (remainingDays * One) \div maxDuration

\* a plausible slip: the elapsed share of the year instead of the remaining one
calculateExpirationScoreElapsed(createdAt, t) ==
    LET daysSinceCreation == t - createdAt
        elapsedDays == Max(0, daysSinceCreation)
    IN  Min(One, (elapsedDays * One) \div maxDuration)

\* reads the clock: t is the value of new Date() at the call
calculateExpirationScore(createdAt, t) ==
    LET daysSinceCreation == t - createdAt
        remainingDays == Max(0, maxDuration - daysSinceCreation)
    IN  Min(One, (remainingDays * One) \div maxDuration)

extractTLD(fullDomain) ==
    LET parts == split(fullDomain, ".") IN
    IF Len(parts) > 1 THEN <<".">> \o parts[Len(parts)] ELSE <<>>

getLengthDescription(length) ==
    IF length <= 4 THEN "Very short - highly valuable"
    ELSE IF length <= 6 THEN "Short - good value"
    ELSE IF length <= 8 THEN "Medium length - moderate value"
    ELSE IF length <= 12 THEN "Long - lower value"
    ELSE "Very long - minimal value"

getPatternDescription(domainName) ==
    LET name == toLowerCase(domainName) IN
    IF AllIn(name, LowerLetters) THEN "Pure letters - premium brandable"
    ELSE IF AllIn(name, Digits) THEN "Pure numbers - numeric value"
    ELSE IF AllIn(name, LowerLetters \cup Digits) THEN "Alphanumeric - good brandable"
    ELSE IF AllIn(name, LowerLetters \cup Digits \cup {"-"}) THEN "With hyphens - acceptable"
    ELSE "Complex pattern - lower value"

getTLDDescription(tld) ==
    LET score == TldRarityAt(toLowerCase(tld)) IN
    IF IsPresent(score) /\ score[1] >= Tenths(10) THEN "Premium TLD - high value"
    ELSE IF IsPresent(score) /\ score[1] >= Tenths(8) THEN "Common TLD - good value"
    ELSE IF IsPresent(score) /\ score[1] >= Tenths(6) THEN "New TLD - moderate value"
    ELSE IF IsPresent(score) /\ score[1] >= Tenths(4) THEN "Generic TLD - lower value"
    ELSE "Unknown TLD - uncertain value"

getActivityDescription(stats, activities) ==
    IF ~IsPresent(stats) THEN "No trading history"
    ELSE
      LET salesCount == stats[1].salesCount
          activityCount == IF IsPresent(activities) THEN Len(activities[1]) ELSE 0
      IN  IF salesCount >= 10 \/ activityCount >= 10 THEN "High trading activity - proven demand"
          ELSE IF salesCount >= 3 \/ activityCount >= 3 THEN "Moderate activity - some interest"
          ELSE IF salesCount >= 1 \/ activityCount >= 1 THEN "Low activity - limited interest"
          ELSE "No trading activity - untested market"

getExpirationDescription(createdAt, t) ==
    LET daysSinceCreation == t - createdAt IN
    IF daysSinceCreation < 30 THEN "Recently registered - fresh"
    ELSE IF daysSinceCreation < 180 THEN "Recently registered - established"
    ELSE IF daysSinceCreation < 365 THEN "Mature registration - stable"
    ELSE "Long-term registration - very stable"

\* the weighted sum of the unrounded factors, in units of 1/(100 * One)
WeightedSum(lengthScore, patternScore, tldScore, activityScore, expirationScore) ==
    SCORING_WEIGHTS.LENGTH * lengthScore +
    SCORING_WEIGHTS.PATTERN * patternScore +
    SCORING_WEIGHTS.TLD * tldScore +
    SCORING_WEIGHTS.ACTIVITY * activityScore +
    SCORING_WEIGHTS.EXPIRATION * expirationScore

\* a plausible slip: the total re-averaged from the rounded display values
TotalFromDisplayValues(domain, stats, activities, t) ==
    LET domainName == domain.labelName
        tld == extractTLD(domain.id)
        breakdown ==
            [length |-> RoundPercent(calculateLengthScore(domainName)),
             pattern |-> RoundPercent(calculatePatternScore(domainName)),
             tld |-> RoundPercent(calculateTLDScore(tld)),
             activity |-> RoundPercent(calculateActivityScore(stats, activities)),
             expiration |-> RoundPercent(calculateExpirationScore(domain.createdAt, t))]
        totalScore ==
            (2 * WeightedSum(breakdown.length, breakdown.pattern, breakdown.tld,
                             breakdown.activity, breakdown.expiration) + 100) \div 200
    IN  [totalScore |-> Min(100, Max(0, totalScore)),
         breakdown |-> breakdown,
         factors |->
            [length |-> getLengthDescription(Len(domainName)),
             pattern |-> getPatternDescription(domainName),
             tld |-> getTLDDescription(tld),
             activity |-> getActivityDescription(stats, activities),
             expiration |-> getExpirationDescription(domain.createdAt, t)]]

\* a plausible slip: the final clamp of totalScore left out
TotalUnclamped(domain, stats, activities, t) ==
    LET domainName == domain.labelName
        tld == extractTLD(domain.id)
        lengthScore == calculateLengthScore(domainName)
        patternScore == calculatePatternScore(domainName)
        tldScore == calculateTLDScore(tld)
        activityScore == calculateActivityScore(stats, activities)
        expirationScore == calculateExpirationScore(domain.createdAt, t)
        totalScore ==
            (2 * WeightedSum(lengthScore, patternScore, tldScore,
                             activityScore, expirationScore) + One) \div (2 * One)
    IN  [totalScore |-> totalScore,
         breakdown |->
            [length |-> RoundPercent(lengthScore),
             pattern |-> RoundPercent(patternScore),
             tld |-> RoundPercent(tldScore),
             activity |-> RoundPercent(activityScore),
             expiration |-> RoundPercent(expirationScore)],
         factors |->
            [length |-> getLengthDescription(Len(domainName)),
             pattern |-> getPatternDescription(domainName),
             tld |-> getTLDDescription(tld),
             activity |-> getActivityDescription(stats, activities),
             expiration |-> getExpirationDescription(domain.createdAt, t)]]

\* calculateDomainScore(domain, stats, activities), called at time t
calculateDomainScore(domain, stats, activities, t) ==
    LET domainName == domain.labelName
        tld == extractTLD(domain.id)
        lengthScore == calculateLengthScore(domainName)
        patternScore == calculatePatternScore(domainName)
        tldScore == calculateTLDScore(tld)
        activityScore == calculateActivityScore(stats, activities)
        expirationScore == calculateExpirationScore(domain.createdAt, t)
        \* Math.round(weighted sum * 100)
        totalScore ==
            (2 * WeightedSum(lengthScore, patternScore, tldScore,
                             activityScore, expirationScore) + One) \div (2 * One)
    IN  [totalScore |-> Min(100, Max(0, totalScore)),
         breakdown |->
            [length |-> RoundPercent(lengthScore),
             pattern |-> RoundPercent(patternScore),
             tld |-> RoundPercent(tldScore),
             activity |-> RoundPercent(activityScore),
             expiration |-> RoundPercent(expirationScore)],
         factors |->
            [length |-> getLengthDescription(Len(domainName)),
             pattern |-> getPatternDescription(domainName),
             tld |-> getTLDDescription(tld),
             activity |-> getActivityDescription(stats, activities),
             expiration |-> getExpirationDescription(domain.createdAt, t)]]

-----------------------------------------------------------------------------
(* Trending ranker: src/lib/trending/algorithms/real-data-trending.ts *)
(*                                                                         *)
(* An input record is [obj, name, tokenizedAt, listingPrice,               *)
(* activeOffersCount, activityCount]; obj is the identity of the JavaScript *)
(* object, the other fields are optional.  listingPrice is a decimal       *)
(* string of wei, kept as [digits, zeros]: the numeral of digits followed  *)
(* by zeros characters "0".  tokenizedAt is a string, kept as              *)
(* [text |-> "date", day |-> n] when it is the date of day n and as         *)
(* [text |-> "other"] when it is no date.  A scored record carries in src   *)
(* the identity of the input object it was mapped from.                     *)

mixThreshold == 20     \* validDomains.length >= 20
recentTake == 20       \* recentDomains.slice(0, Math.min(20, ...))
olderTake == 15        \* olderDomains.slice(0, Math.min(15, ...))
fallbackTake == 50     \* validDomains.slice(0, 50)
recentDays == 7        \* sevenDaysAgo
monthDays == 30        \* thirtyDaysAgo of the ultra simple algorithm
topCount == 8          \* recentDomains.slice(0, 8)

\* a non-empty string is truthy
TruthyString(o) == IsPresent(o) /\ Len(o[1]) > 0

\* Array.prototype.slice(0, n), n >= 0
slice(s, n) == SubSeq(s, 1, Min(n, Len(s)))

\* new Date(s).getTime(): undefined stands for NaN
getTime(s) == IF s.text = "date" THEN Some(s.day) ELSE undefined

\* typedDomain.tokenizedAt as new Date reads it: an absent field is no date
tokenizedAtOf(d) == IF IsPresent(d.tokenizedAt) THEN d.tokenizedAt[1] ELSE [text |-> "other"]

\* x >= y and x < y, false when x is NaN
AtLeast(x, y) == IsPresent(x) /\ x[1] >= y
Below(x, y) == IsPresent(x) /\ x[1] < y

\* a plausible slip: the fallback not cut to its first fallbackTake records
filterRecentDomainsFallbackAll(ds, t) ==
    LET IsValid(d) == IsPresent(d.tokenizedAt) /\ TruthyString(d.name)
        validDomains == SelectSeq(ds, IsValid)
    IN  IF Len(validDomains) >= mixThreshold
        THEN
          LET sevenDaysAgo == t - recentDays
              IsRecent(d) == AtLeast(getTime(d.tokenizedAt[1]), sevenDaysAgo)
              IsOlder(d) == Below(getTime(d.tokenizedAt[1]), sevenDaysAgo)
              recentDomains == SelectSeq(validDomains, IsRecent)
              olderDomains == SelectSeq(validDomains, IsOlder)
              mixedDomains ==
                  slice(recentDomains, Min(recentTake, Len(recentDomains)))
                  \o slice(olderDomains, Min(olderTake, Len(olderDomains)))
          IN  IF Len(mixedDomains) > 0 THEN mixedDomains
              ELSE validDomains
        ELSE validDomains

\* a plausible slip: the mix of recent and older records taken whatever the
\* number of valid records
filterRecentDomainsAlwaysMixed(ds, t) ==
    LET IsValid(d) == IsPresent(d.tokenizedAt) /\ TruthyString(d.name)
        validDomains == SelectSeq(ds, IsValid)
        sevenDaysAgo == t - recentDays
        IsRecent(d) == AtLeast(getTime(d.tokenizedAt[1]), sevenDaysAgo)
        IsOlder(d) == Below(getTime(d.tokenizedAt[1]), sevenDaysAgo)
        recentDomains == SelectSeq(validDomains, IsRecent)
        olderDomains == SelectSeq(validDomains, IsOlder)
        mixedDomains ==
            slice(recentDomains, Min(recentTake, Len(recentDomains)))
            \o slice(olderDomains, Min(olderTake, Len(olderDomains)))
    IN  IF Len(mixedDomains) > 0 THEN mixedDomains
        ELSE slice(validDomains, fallbackTake)

filterRecentDomains(ds, t) ==
    LET IsValid(d) == IsPresent(d.tokenizedAt) /\ TruthyString(d.name)
        validDomains == SelectSeq(ds, IsValid)
    IN  IF Len(validDomains) >= mixThreshold
        THEN
          LET sevenDaysAgo == t - recentDays
              IsRecent(d) == AtLeast(getTime(d.tokenizedAt[1]), sevenDaysAgo)
              IsOlder(d) == Below(getTime(d.tokenizedAt[1]), sevenDaysAgo)
              recentDomains == SelectSeq(validDomains, IsRecent)
              olderDomains == SelectSeq(validDomains, IsOlder)
              mixedDomains ==
                  slice(recentDomains, Min(recentTake, Len(recentDomains)))
                  \o slice(olderDomains, Min(olderTake, Len(olderDomains)))
          IN  IF Len(mixedDomains) > 0 THEN mixedDomains
              ELSE slice(validDomains, fallbackTake)
        ELSE validDomains

cryptoTerms ==
    << <<"c", "r", "y", "p", "t", "o">>, <<"n", "f", "t">>, <<"w", "e", "b", "3">>, <<"d", "e", "f", "i">>, <<"d", "a", "o">>, <<"m", "e", "t", "a">>, <<"b", "t", "c">>, <<"e", "t", "h">>, <<"s", "o", "l">>,
       <<"c", "o", "i", "n">>, <<"t", "o", "k", "e", "n">>, <<"c", "h", "a", "i", "n">>, <<"b", "l", "o", "c", "k">>, <<"d", "a", "p", "p">>, <<"s", "w", "a", "p">>, <<"d", "e", "x">>, <<"f", "a", "r", "m">>,
       <<"p", "o", "o", "l">>, <<"v", "a", "u", "l", "t">>, <<"y", "i", "e", "l", "d">>, <<"s", "t", "a", "k", "e">>, <<"m", "i", "n", "t">>, <<"b", "u", "r", "n">>, <<"a", "p", "e">>, <<"a", "p", "e", "x">>,
       <<"b", "i", "t", "c", "o", "i", "n">>, <<"e", "t", "h", "e", "r", "e", "u", "m">>, <<"s", "o", "l", "a", "n", "a">>, <<"p", "o", "l", "y", "g", "o", "n">>, <<"a", "v", "a", "l", "a", "n", "c", "h", "e">>, <<"c", "h", "a", "i", "n", "l", "i", "n", "k">>,
       <<"u", "n", "i", "s", "w", "a", "p">>, <<"o", "p", "e", "n", "s", "e", "a">>, <<"c", "o", "i", "n", "b", "a", "s", "e">>, <<"b", "i", "n", "a", "n", "c", "e">> >>

commonWords ==
    << <<"a", "p", "p">>, <<"w", "e", "b">>, <<"n", "e", "t">>, <<"d", "e", "v">>, <<"p", "r", "o">>, <<"m", "a", "x">>, <<"m", "i", "n">>, <<"t", "o", "p">>, <<"n", "e", "w">>, <<"o", "l", "d">>,
       <<"b", "i", "g">>, <<"s", "m", "a", "l", "l">>, <<"f", "a", "s", "t">>, <<"s", "l", "o", "w">>, <<"h", "o", "t">>, <<"c", "o", "o", "l">>, <<"w", "i", "n">>, <<"l", "o", "s", "e">>, <<"b", "u", "y">>,
       <<"s", "e", "l", "l">>, <<"t", "r", "a", "d", "e">>, <<"s", "w", "a", "p">>, <<"m", "i", "n", "t">>, <<"b", "u", "r", "n">>, <<"s", "t", "a", "k", "e">>, <<"f", "a", "r", "m">>, <<"p", "o", "o", "l">>,
       <<"v", "a", "u", "l", "t">>, <<"y", "i", "e", "l", "d">>, <<"d", "a", "o">>, <<"d", "e", "f", "i">>, <<"n", "f", "t">>, <<"w", "e", "b", "3">>, <<"c", "r", "y", "p", "t", "o">>, <<"m", "e", "t", "a">>,
       <<"a", "i">>, <<"b", "t", "c">>, <<"e", "t", "h">>, <<"s", "o", "l">> >>

\* domainName.split('.').pop()
tldOf(domainName) ==
    LET parts == split(domainName, ".") IN parts[Len(parts)]

\* domainName.split('.')[0]
nameWithoutTLDOf(domainName) == split(domainName, ".")[1]

estimatePriceScore(domain) ==
    LET domainName == toLowerCase(domain.name[1])
        tld == tldOf(domainName)
        nameWithoutTLD == nameWithoutTLDOf(domainName)
        lengthBonus ==
            IF Len(nameWithoutTLD) <= 3 THEN 40
            ELSE IF Len(nameWithoutTLD) <= 5 THEN 30
            ELSE IF Len(nameWithoutTLD) <= 7 THEN 20
            ELSE IF Len(nameWithoutTLD) <= 10 THEN 10
            ELSE 0
        tldBonus ==
            IF tld = <<"c", "o", "m">> THEN 20
            ELSE IF tld = <<"a", "i">> THEN 15
            ELSE IF tld = <<"e", "t", "h">> THEN 12
            ELSE IF tld = <<"s", "o", "l">> THEN 10
            ELSE IF tld = <<"i", "o">> THEN 8
            ELSE 0
        termBonus ==
            IF \E i \in 1..Len(cryptoTerms) : includes(nameWithoutTLD, cryptoTerms[i])
            THEN 15 ELSE 0
    IN  Min(100, 20 + lengthBonus + tldBonus + termBonus)

weiDigits == 18        \* parseFloat(domain.listingPrice) / 1e18

\* 1000 * parseFloat(listingPrice) / 1e18, rounded down
priceInMilliETH(listingPrice) ==
    IF listingPrice.zeros >= weiDigits - 3
    THEN listingPrice.digits * 10 ^ (listingPrice.zeros - (weiDigits - 3))
    ELSE listingPrice.digits \div 10 ^ ((weiDigits - 3) - listingPrice.zeros)

\* a plausible slip: the bucket boundaries taken as exclusive
calculatePriceScoreExclusive(domain) ==
    IF IsPresent(domain.listingPrice)
    THEN
      LET milli == priceInMilliETH(domain.listingPrice[1]) IN
      IF milli > 500 THEN 100
      ELSE IF milli > 100 THEN 80
      ELSE IF milli > 50 THEN 60
      ELSE IF milli > 10 THEN 40
      ELSE 20
    ELSE estimatePriceScore(domain)

calculatePriceScore(domain) ==
    IF IsPresent(domain.listingPrice)
    THEN
      LET milli == priceInMilliETH(domain.listingPrice[1]) IN
      IF milli >= 500 THEN 100        \* priceInETH >= 0.5
      ELSE IF milli >= 100 THEN 80    \* priceInETH >= 0.1
      ELSE IF milli >= 50 THEN 60     \* priceInETH >= 0.05
      ELSE IF milli >= 10 THEN 40     \* priceInETH >= 0.01
      ELSE 20
    ELSE estimatePriceScore(domain)

calculateRankActivityScore(activityCount) ==
    IF activityCount >= 10 THEN 100
    ELSE IF activityCount >= 5 THEN 80
    ELSE IF activityCount >= 3 THEN 60
    ELSE IF activityCount >= 2 THEN 40
    ELSE 20

calculateOffersScore(activeOffersCount) ==
    IF activeOffersCount >= 5 THEN 100
    ELSE IF activeOffersCount >= 3 THEN 80
    ELSE IF activeOffersCount >= 2 THEN 60
    ELSE IF activeOffersCount >= 1 THEN 40
    ELSE 20

\* /^[a-z]{1,4}[0-9]{1,3}$/i  or  /^[0-9]{1,3}[a-z]{1,4}$/i
isPremiumPattern(s) ==
    LET Letters == LowerLetters \cup UpperLetters
        Run(from, to, class) == \A i \in from..to : s[i] \in class
    IN  \/ \E k \in 1..4 : \E m \in 1..3 :
              Len(s) = k + m /\ Run(1, k, Letters) /\ Run(k + 1, k + m, Digits)
        \/ \E m \in 1..3 : \E k \in 1..4 :
              Len(s) = m + k /\ Run(1, m, Digits) /\ Run(m + 1, m + k, Letters)

\* a plausible slip: the word bonus given only when the pattern bonus is not
calculateCharacteristicsScoreOneBonus(nameWithoutTLD, tld) ==
    LET lengthBonus ==
            IF Len(nameWithoutTLD) <= 3 THEN 30
            ELSE IF Len(nameWithoutTLD) <= 5 THEN 20
            ELSE IF Len(nameWithoutTLD) <= 7 THEN 10
            ELSE 0
        tldBonus ==
            IF tld = <<"c", "o", "m">> THEN 15
            ELSE IF tld = <<"a", "i">> THEN 12
            ELSE IF tld = <<"e", "t", "h">> THEN 10
            ELSE IF tld = <<"s", "o", "l">> THEN 8
            ELSE IF tld = <<"i", "o">> THEN 6
            ELSE 0
        bonus ==
            IF isPremiumPattern(nameWithoutTLD) THEN 10
            ELSE IF \E i \in 1..Len(commonWords) : nameWithoutTLD = commonWords[i]
            THEN 15 ELSE 0
    IN  Min(100, 50 + lengthBonus + tldBonus + bonus)

calculateCharacteristicsScore(nameWithoutTLD, tld) ==
    LET lengthBonus ==
            IF Len(nameWithoutTLD) <= 3 THEN 30
            ELSE IF Len(nameWithoutTLD) <= 5 THEN 20
            ELSE IF Len(nameWithoutTLD) <= 7 THEN 10
            ELSE 0
        tldBonus ==
            IF tld = <<"c", "o", "m">> THEN 15
            ELSE IF tld = <<"a", "i">> THEN 12
            ELSE IF tld = <<"e", "t", "h">> THEN 10
            ELSE IF tld = <<"s", "o", "l">> THEN 8
            ELSE IF tld = <<"i", "o">> THEN 6
            ELSE 0
        patternBonus == IF isPremiumPattern(nameWithoutTLD) THEN 10 ELSE 0
        wordBonus ==
            IF \E i \in 1..Len(commonWords) : nameWithoutTLD = commonWords[i]
            THEN 15 ELSE 0
    IN  Min(100, 50 + lengthBonus + tldBonus + patternBonus + wordBonus)

\* a plausible slip: the weights of the comment above calculateTrendingScores,
\* Math.round(0.4 p + 0.3 a + 0.3 o)
trendingScoreOfOldWeights(priceScore, activityScore, offersScore, characteristicsScore) ==
    (2 * (4 * priceScore + 3 * activityScore + 3 * offersScore) + 10) \div 20

\* Math.round(0.2 p + 0.2 a + 0.2 o + 0.4 c): the sum is a whole number of
\* tenths, and Math.round rounds a half up
trendingScoreOf(priceScore, activityScore, offersScore, characteristicsScore) ==
    (2 * (2 * priceScore + 2 * activityScore + 2 * offersScore
          + 4 * characteristicsScore) + 10) \div 20

\* the callback of domains.map in calculateTrendingScores
scoreOne(typedDomain) ==
    LET domainName == toLowerCase(typedDomain.name[1])
        tld == tldOf(domainName)
        nameWithoutTLD == nameWithoutTLDOf(domainName)
        activeOffersCount == OrElse(typedDomain.activeOffersCount, 0)
        activityCount == OrElse(typedDomain.activityCount, 1)
        priceScore == calculatePriceScore(typedDomain)
        activityScore == calculateRankActivityScore(activityCount)
        offersScore == calculateOffersScore(activeOffersCount)
        characteristicsScore == calculateCharacteristicsScore(nameWithoutTLD, tld)
        trendingScore ==
            trendingScoreOf(priceScore, activityScore, offersScore, characteristicsScore)
    IN  [src |-> typedDomain.obj,
         name |-> typedDomain.name,
         listingPrice |-> typedDomain.listingPrice,
         activeOffersCount |-> typedDomain.activeOffersCount,
         tokenizedAt |-> typedDomain.tokenizedAt,
         trendingScore |-> trendingScore,
         priceScore |-> priceScore,
         activityScore |-> activityScore,
         offersScore |-> offersScore,
         characteristicsScore |-> characteristicsScore,
         activityCount |-> activityCount]

calculateTrendingScores(ds) == <<>> \o [i \in 1..Len(ds) |-> scoreOne(ds[i])]

\* a plausible slip: ascending instead of descending on the primary key
compareAscending(a, b) ==
    IF b.trendingScore # a.trendingScore
    THEN a.trendingScore - b.trendingScore
    ELSE IF OrElse(Some(b.activityCount), 0) # OrElse(Some(a.activityCount), 0)
    THEN OrElse(Some(b.activityCount), 0) - OrElse(Some(a.activityCount), 0)
    ELSE OrElse(b.activeOffersCount, 0) - OrElse(a.activeOffersCount, 0)

\* the comparator handed to domains.sort
compare(a, b) ==
    IF b.trendingScore # a.trendingScore
    THEN b.trendingScore - a.trendingScore
    ELSE IF OrElse(Some(b.activityCount), 0) # OrElse(Some(a.activityCount), 0)
    THEN OrElse(Some(b.activityCount), 0) - OrElse(Some(a.activityCount), 0)
    ELSE OrElse(b.activeOffersCount, 0) - OrElse(a.activeOffersCount, 0)

\* a plausible slip: an unstable sort, x goes before the elements equal to it
RECURSIVE insertSortedBeforeEqual(_, _)
insertSortedBeforeEqual(s, x) ==
    IF s = <<>> THEN <<x>>
    ELSE IF compare(s[Len(s)], x) < 0 THEN Append(s, x)
    ELSE Append(insertSortedBeforeEqual(SubSeq(s, 1, Len(s) - 1), x), s[Len(s)])

\* Array.prototype.sort is stable: x goes after every element that does not
\* compare greater than it
RECURSIVE insertSorted(_, _)
insertSorted(s, x) ==
    IF s = <<>> THEN <<x>>
    ELSE IF compare(s[Len(s)], x) <= 0 THEN Append(s, x)
    ELSE Append(insertSorted(SubSeq(s, 1, Len(s) - 1), x), s[Len(s)])

RECURSIVE sortPrefix(_, _)
sortPrefix(s, n) ==
    IF n = 0 THEN <<>> ELSE insertSorted(sortPrefix(s, n - 1), s[n])

\* a plausible slip: the array returned as it came
sortByTrendingScoreSkipped(ds) == ds

sortByTrendingScore(ds) == sortPrefix(ds, Len(ds))

\* a plausible slip: the final slice left out
executeWithoutSlice(ds, lim, t) ==
    sortByTrendingScore(calculateTrendingScores(filterRecentDomains(ds, t)))

\* a plausible slip: the slice taken before the sort
executeSliceBeforeSort(ds, lim, t) ==
    sortByTrendingScore(slice(calculateTrendingScores(filterRecentDomains(ds, t)), lim))

\* RealDataTrendingAlgorithm.execute(domains, {limit}), called at time t
execute(ds, lim, t) ==
    LET recentDomains == filterRecentDomains(ds, t)
        scoredDomains == calculateTrendingScores(recentDomains)
        sortedDomains == sortByTrendingScore(scoredDomains)
    IN  slice(sortedDomains, lim)

\* a plausible slip: the records that fail the filter spliced out of the
\* caller's array
domainsAfterExecuteFilteredInPlace(ds, lim, t) == filterRecentDomains(ds, t)

\* the caller's array after execute(ds, {limit}): filter, slice and the spread
\* build new arrays, map builds a new array of new records from fields it
\* reads, and sort orders in place the array that map built
domainsAfterExecute(ds, lim, t) == ds

\* a plausible slip: the window of 7 days in place of 30
ultraSimpleFilterRecentDomainsSevenDays(ds, t) ==
    LET thirtyDaysAgo == t - recentDays
        Keep(d) == AtLeast(getTime(tokenizedAtOf(d)), thirtyDaysAgo)
    IN  SelectSeq(ds, Keep)

\* UltraSimpleTrendingAlgorithm.filterRecentDomains(domains), called at time t
ultraSimpleFilterRecentDomains(ds, t) ==
    LET thirtyDaysAgo == t - monthDays
        Keep(d) == AtLeast(getTime(tokenizedAtOf(d)), thirtyDaysAgo)
    IN  SelectSeq(ds, Keep)

\* UltraSimpleTrendingAlgorithm.execute(domains, config), called at time t
ultraSimpleExecute(ds, lim, t) == slice(ultraSimpleFilterRecentDomains(ds, t), topCount)

-----------------------------------------------------------------------------
(* Search boundary: lib/doma-api.ts and components/Layout/SearchSection.tsx *)

maxLabelMiddle == 61    \* {0,61} in domainRegex
maxNameLength == 253    \* domainName.length <= 253

AlphaNum == LowerLetters \cup UpperLetters \cup Digits

\* [a-zA-Z0-9]([a-zA-Z0-9-]{0,61}[a-zA-Z0-9])?
MatchesLabel(l) ==
    /\ Len(l) >= 1
    /\ Len(l) <= maxLabelMiddle + 2
    /\ l[1] \in AlphaNum
    /\ l[Len(l)] \in AlphaNum
    /\ \A i \in 1..Len(l) : l[i] \in AlphaNum \cup {"-"}

\* domainRegex = /^label(\.label)*$/ : every '.'-separated part is a label
isValidDomainName(domainName) ==
    LET parts == split(domainName, ".") IN
    /\ \A i \in 1..Len(parts) : MatchesLabel(parts[i])
    /\ Len(domainName) <= maxNameLength

\* s.replace(/^prefix/, '')
stripPrefix(s, prefix) ==
    IF Len(s) >= Len(prefix) /\ SubSeq(s, 1, Len(prefix)) = prefix
    THEN SubSeq(s, Len(prefix) + 1, Len(s))
    ELSE s

\* the two leading replace calls of formatDomainName
stripProtocolAndWww(domainName) ==
    LET noProtocol ==
            IF Len(stripPrefix(domainName, <<"h", "t", "t", "p", "s", ":", "/", "/">>)) < Len(domainName)
            THEN stripPrefix(domainName, <<"h", "t", "t", "p", "s", ":", "/", "/">>)
            ELSE stripPrefix(domainName, <<"h", "t", "t", "p", ":", "/", "/">>)
    IN  stripPrefix(noProtocol, <<"w", "w", "w", ".">>)

\* a plausible slip: the default TLD not appended
formatDomainNameNoDefault(domainName) ==
    toLowerCase(stripProtocolAndWww(domainName))

formatDomainName(domainName) ==
    LET stripped == stripProtocolAndWww(domainName)
        formatted ==
            IF ~includesChar(stripped, ".") THEN stripped \o <<".", "s", "o", "l">> ELSE stripped
    IN  toLowerCase(formatted)

\* what GET_DOMAIN_QUERY returns for name(id: $name): the entry whose id is $name
subgraphDomain(name, createdAt) ==
    [id |-> name, labelName |-> split(name, ".")[1], createdAt |-> createdAt]

-----------------------------------------------------------------------------
(* Bounds and input sets *)

MaxNow == 2          \* the clock ticks at most MaxNow times
TickDays == 50       \* days between two readings of the clock
MaxLabelLen == 25    \* longest label handed to the scorer
MaxRecords == 2      \* records the caller puts after the padding block, if any
PadCount == 20       \* size of the padding block
MaxLimit == 2        \* small values of config.limit
BigLimit == 30       \* a config.limit above the length of a padded array
MaxEfficient == 3    \* longest list the efficient service answers with
MaxItems == 2        \* longest items list of a GraphQL answer
MaxSearches == 3     \* searches started on the analytics page

ScoreLabels ==
    {Rep("a", n) : n \in 0..MaxLabelLen}
    \cup {<<"7">>, <<"4", "2">>, <<"a", "1">>, <<"a", "-", "b">>, <<"a", "_", "b">>, <<"A", "b">>}
IdSuffixes == {<<>>, <<".", "c", "o", "m">>, <<".", "S", "O", "L">>, <<".", "i", "o">>, <<".", "c", "o">>, <<".", "x", "y", "z">>, <<".", "s", "o", "l", ".", "x", "y", "z">>}
StatsChoices == {undefined} \cup {Some([salesCount |-> n]) : n \in {0, 3, 10}}
ActivityChoices == {undefined} \cup {Some(Rep("activity", n)) : n \in {0, 1, 10}}
Ages == {-3, 0, 165, 364, 365, 400}

Rec(name, tokenizedAt, listingPrice, activeOffersCount, activityCount) ==
    [name |-> name, tokenizedAt |-> tokenizedAt, listingPrice |-> listingPrice,
     activeOffersCount |-> activeOffersCount, activityCount |-> activityCount]

\* the decimal string of digits followed by zeros characters "0"
ListingPrice(digits, zeros) == Some([digits |-> digits, zeros |-> zeros])

\* a tokenizedAt that is the date of a day, and one that is no date
On(day) == Some([text |-> "date", day |-> day])
NoDate == Some([text |-> "other"])

LongName == <<"v", "e", "r", "y", "l", "o", "n", "g", "d", "o", "m", "a", "i", "n", "n", "a", "m", "e", ".", "n", "e", "t">>
RankRecords ==
    { Rec(Some(<<"a", "i", ".", "a", "i">>), On(-3), undefined, Some(6), Some(12)),
      Rec(Some(LongName), On(-3), undefined, Some(0), Some(0)),
      Rec(Some(LongName), On(-40), ListingPrice(1, 16), Some(0), Some(3)),
      Rec(Some(LongName), On(-3), ListingPrice(5, 15), Some(1), Some(3)),
      Rec(undefined, On(-3), undefined, Some(9), Some(9)),
      Rec(Some(LongName), On(-10), undefined, undefined, Some(1)),
      Rec(Some(<<"a", "i", ".", "a", "i">>), undefined, undefined, Some(6), Some(12)),
      Rec(Some(LongName), undefined, undefined, Some(0), Some(0)) }
\* the records a padding block repeats; they are not among RankRecords
Filler == Rec(Some(<<"z", "z", "z", "z", "z", "z", "z", "z", "z", "z", "z", ".", "z", "z">>), On(-3), undefined, undefined, Some(1))
OldFiller == Rec(Some(<<"z", "z", "z", "z", "z", "z", "z", "z", "z", "z", "z", ".", "z", "z">>), On(-10), undefined, Some(0), Some(1))
NoDateFiller == Rec(Some(<<"z", "z", "z", "z", "z", "z", "z", "z", "z", "z", "z", ".", "z", "z">>), NoDate, undefined, Some(0), Some(1))
Fillers == {Filler, OldFiller, NoDateFiller}
Limits == (0..MaxLimit) \cup {BigLimit}

\* the records of the arrays of length one: every combination of a name, a
\* listing price, an offer count and an activity count
OneNames ==
    {<<"a", "i", ".", "a", "i">>, LongName, <<"e", "t", "h", ".", "c", "o", "m">>, <<"W", "e", "b", "3", ".", "S", "O", "L">>, <<"a", "b", "c", "d", "1", "2", ".", "i", "o">>, <<"l", "o", "n", "g", "e", "r", ".", "a", "i">>, <<"n", "o", "T", "L", "D">>,
     <<"w", "e", "b", "3", ".", "x", "y", "z">>}
OnePrices ==
    {undefined}
    \cup {ListingPrice(d, 15) : d \in {0, 9, 49, 99, 499}}
    \cup {ListingPrice(d, z) : d \in {1, 5}, z \in {16, 17}}
    \cup {ListingPrice(99999, 12), ListingPrice(1, 18)}
OneOffers == {undefined} \cup {Some(n) : n \in {0, 1, 2, 3, 5}}
OneActivity == {undefined} \cup {Some(n) : n \in {0, 1, 2, 3, 5, 10}}

Queries ==
    { <<>>, <<" ">>, <<"c", "r", "y", "p", "t", "o">>, <<"c", "r", "y", "p", "t", "o", ".", "s", "o", "l">>, <<"A", "b", ".", "C", "O", "M">>, <<".", "c", "o", "m">>, <<"a", ".">>, <<"w", "w", "w", ".", "x", ".", "i", "o">>,
      <<"a", "_", "b", ".", "i", "o">> }
FetchAges == {10, 400}
FetchStats == {undefined, Some([salesCount |-> 3])}

\* the four queries of fetchDomainData, and a query not yet settled
DataQueries == {"domain", "stats", "listingsOffers", "activities"}
Pending == [status |-> "pending"]

-----------------------------------------------------------------------------
(* State machine *)

Init ==
    /\ now = 0
    /\ scoreArgs = <<>> /\ scoreResult = <<>> /\ scoreAt = 0
    /\ firstResult = <<>> /\ firstAt = 0
    /\ domains = <<>> /\ limit = 0 /\ ranked = <<>> /\ rankedAt = 0
    /\ rankedAgain = <<>> /\ topEight = <<>> /\ rankPc = "head"
    /\ searchQuery = <<>> /\ isLoading = FALSE /\ error = <<>>
    /\ searchPc = "idle" /\ submitted = <<>> /\ fetchedName = <<>>
    /\ domainData = <<>> /\ scored = <<>>
    /\ trendPc = "idle" /\ trendLimit = 0 /\ efficientDomains = <<>>
    /\ trendResponse = <<>>
    /\ dataPc = "idle" /\ formattedName = <<>> /\ dataResult = <<>>
    /\ results = [q \in DataQueries |-> Pending]
    /\ effPc = "awaiting" /\ recentListings = <<>> /\ domainsWithOffers = <<>>
    /\ listedDomains = <<>> /\ effLimit = 0 /\ effResult = <<>>
    /\ pageQuery = <<>> /\ pageData = <<>> /\ pageLoading = FALSE /\ pageError = <<>>
    /\ urlTimer = [at |-> "unmounted"] /\ inFlight = {} /\ started = <<>>

\* the clock advances
Tick ==
    /\ now + TickDays <= MaxNow * TickDays
    /\ now' = now + TickDays
    /\ UNCHANGED <<serviceVars, scoreVars, rankVars, searchVars>>

\* a first call calculateDomainScore(domain, stats, activities)
Score(label, suffix, stats, activities, age) ==
    /\ scoreArgs = <<>>
    /\ LET domain == [id |-> label \o suffix, labelName |-> label, createdAt |-> now - age]
           result == calculateDomainScore(domain, stats, activities, now)
       IN  /\ scoreArgs' = Some([domain |-> domain, stats |-> stats, activities |-> activities])
           /\ scoreResult' = Some(result)
           /\ firstResult' = Some(result)
    /\ scoreAt' = now
    /\ firstAt' = now
    /\ UNCHANGED <<serviceVars, now, rankVars, searchVars>>

\* the same call made again with identical arguments
Rescore ==
    /\ scoreArgs # <<>>
    /\ LET a == scoreArgs[1] IN
       scoreResult' = Some(calculateDomainScore(a.domain, a.stats, a.activities, now))
    /\ scoreAt' = now
    /\ UNCHANGED <<serviceVars, now, scoreArgs, firstResult, firstAt, rankVars, searchVars>>

WithObj(r, obj) ==
    [obj |-> obj, name |-> r.name, tokenizedAt |-> r.tokenizedAt,
     listingPrice |-> r.listingPrice, activeOffersCount |-> r.activeOffersCount,
     activityCount |-> r.activityCount]

IsFiller(d) == \E filler \in Fillers : d = WithObj(filler, d.obj)

\* the number of records of domains outside the padding block
RecordCount == Cardinality({i \in 1..Len(domains) : ~IsFiller(domains[i])})

\* the caller puts one more record into the array
AddDomain(r) ==
    /\ rankPc \in {"head", "tail"}
    /\ RecordCount < MaxRecords
    /\ domains' = Append(domains, WithObj(r, Len(domains) + 1))
    /\ UNCHANGED <<serviceVars, now, scoreVars, limit, ranked, rankedAt, rankedAgain, topEight, rankPc, searchVars>>

\* the caller puts a block of PadCount like records into the array
Pad(filler) ==
    /\ rankPc = "head"
    /\ domains = <<>>
    /\ domains' = domains \o [i \in 1..PadCount |-> WithObj(filler, Len(domains) + i)]
    /\ rankPc' = "tail"
    /\ UNCHANGED <<serviceVars, now, scoreVars, limit, ranked, rankedAt, rankedAgain, topEight, searchVars>>

\* the caller's array is a single record
AddOne(name, listingPrice, activeOffersCount, activityCount) ==
    /\ rankPc = "head"
    /\ domains = <<>>
    /\ domains' =
         <<WithObj(Rec(Some(name), On(-3), listingPrice, activeOffersCount,
                       activityCount), 1)>>
    /\ rankPc' = "one"
    /\ UNCHANGED <<serviceVars, now, scoreVars, limit, ranked, rankedAt, rankedAgain, topEight, searchVars>>

\* the caller's array is one more than fallbackTake records whose tokenizedAt
\* is no date
PadUndated ==
    /\ rankPc = "head"
    /\ domains = <<>>
    /\ domains' = <<>> \o [i \in 1..(fallbackTake + 1) |-> WithObj(NoDateFiller, i)]
    /\ rankPc' = "one"
    /\ UNCHANGED <<serviceVars, now, scoreVars, limit, ranked, rankedAt, rankedAgain, topEight,
                   searchVars>>

\* RealDataTrendingAlgorithm.execute(domains, {limit: lim})
Execute(lim) ==
    /\ rankPc \in {"head", "tail", "one"}
    /\ limit' = lim
    /\ ranked' = execute(domains, lim, now)
    /\ rankedAt' = now
    /\ domains' = domainsAfterExecute(domains, lim, now)
    /\ rankPc' = "done"
    /\ UNCHANGED <<serviceVars, now, scoreVars, rankedAgain, topEight, searchVars>>

\* time passes after the call
Later ==
    /\ rankPc = "done"
    /\ now' = now + TickDays
    /\ rankPc' = "later"
    /\ UNCHANGED <<serviceVars, scoreVars, domains, limit, ranked, rankedAt, rankedAgain,
                   topEight,
                   searchVars>>

\* a second call execute(domains, {limit}) with the arguments of the first
ExecuteAgain ==
    /\ rankPc \in {"done", "later"}
    /\ rankedAgain' = execute(domains, limit, now)
    /\ domains' = domainsAfterExecute(domains, limit, now)
    /\ rankPc' = "again"
    /\ UNCHANGED <<serviceVars, now, scoreVars, limit, ranked, rankedAt, topEight, searchVars>>

\* UltraSimpleTrendingAlgorithm.execute(domains, {limit: lim})
ExecuteUltraSimple(lim) ==
    /\ rankPc \in {"head", "tail"}
    /\ limit' = lim
    /\ topEight' = ultraSimpleExecute(domains, lim, now)
    /\ rankedAt' = now
    /\ rankPc' = "simple"
    /\ UNCHANGED <<serviceVars, now, scoreVars, domains, ranked, rankedAgain, searchVars>>

\* onChange of the input box: setSearchQuery(e.target.value)
TypeQuery(q) ==
    /\ searchQuery' = q
    /\ UNCHANGED <<serviceVars, now, scoreVars, rankVars, isLoading, error, searchPc, submitted,
                   fetchedName, domainData, scored>>

\* handleSearch up to its await; the submit button is disabled while isLoading
Submit ==
    /\ ~isLoading
    /\ searchPc = "idle"
    /\ IF trim(searchQuery) = <<>>
       THEN UNCHANGED <<isLoading, error, searchPc, submitted, fetchedName>>
       ELSE IF ~isValidDomainName(searchQuery)
       THEN /\ error' = Some("Please enter a valid domain name")
            /\ UNCHANGED <<isLoading, searchPc, submitted, fetchedName>>
       ELSE /\ isLoading' = TRUE
            /\ error' = <<>>
            /\ submitted' = searchQuery
            /\ fetchedName' = formatDomainName(searchQuery)
            /\ searchPc' = "fetching"
    /\ UNCHANGED <<serviceVars, now, scoreVars, rankVars, searchQuery, domainData, scored>>

\* fetchDomainData resolved with a domain: it is scored and handed to onDomainData
FetchFound(age, stats) ==
    /\ searchPc = "fetching"
    /\ LET domain == subgraphDomain(fetchedName, now - age)
           score == calculateDomainScore(domain, stats, Some(<<>>), now)
       IN  domainData' = Some([domain |-> domain, stats |-> stats, score |-> score])
    /\ scored' = Some([query |-> submitted, name |-> fetchedName])
    /\ isLoading' = FALSE
    /\ searchPc' = "idle"
    /\ UNCHANGED <<serviceVars, now, scoreVars, rankVars, searchQuery, error, submitted, fetchedName>>

\* fetchDomainData resolved with domain: null
FetchNotFound ==
    /\ searchPc = "fetching"
    /\ error' = Some("Domain not found on Doma Protocol")
    /\ isLoading' = FALSE
    /\ searchPc' = "idle"
    /\ UNCHANGED <<serviceVars, now, scoreVars, rankVars, searchQuery, submitted, fetchedName,
                   domainData, scored>>

\* fetchDomainData rejected
FetchFail ==
    /\ searchPc = "fetching"
    /\ error' = Some("Failed to fetch domain data")
    /\ isLoading' = FALSE
    /\ searchPc' = "idle"
    /\ UNCHANGED <<serviceVars, now, scoreVars, rankVars, searchQuery, submitted, fetchedName,
                   domainData, scored>>

\* the first call, with any arguments
ScoreAny ==
    /\ scoreArgs = <<>>
    /\ \E label \in ScoreLabels : \E suffix \in IdSuffixes : \E stats \in StatsChoices :
         \E activities \in ActivityChoices : \E age \in Ages :
           Score(label, suffix, stats, activities, age)

ScoreNext ==
    \/ ScoreAny
    \/ Rescore
    \/ Tick

AddAnyOne ==
    /\ domains = <<>>
    /\ \E name \in OneNames : \E listingPrice \in OnePrices :
         \E activeOffersCount \in OneOffers : \E activityCount \in OneActivity :
           AddOne(name, listingPrice, activeOffersCount, activityCount)

RankNext ==
    \/ \E r \in RankRecords : AddDomain(r)
    \/ AddAnyOne
    \/ \E filler \in Fillers : Pad(filler)
    \/ PadUndated
    \/ \E lim \in Limits : Execute(lim)
    \/ Later
    \/ ExecuteAgain
    \/ \E lim \in Limits : ExecuteUltraSimple(lim)

SearchNext ==
    \/ \E q \in Queries : TypeQuery(q)
    \/ Submit
    \/ \E age \in FetchAges : \E stats \in FetchStats : FetchFound(age, stats)
    \/ FetchNotFound
    \/ FetchFail

-----------------------------------------------------------------------------
(* fetchTrendingDomains *)

\* a promise fulfilled with value, and one rejected
Fulfilled(value) == [status |-> "fulfilled", value |-> value]
Rejected == [status |-> "rejected"]

\* the curated popular domains
POPULAR_DOMAINS ==
    << <<"c", "r", "y", "p", "t", "o", ".", "s", "o", "l">>, <<"n", "f", "t", ".", "e", "t", "h">>, <<"w", "e", "b", "3", ".", "c", "o", "m">>, <<"d", "e", "f", "i", ".", "s", "o", "l">>,
       <<"d", "a", "o", ".", "e", "t", "h">>, <<"m", "e", "t", "a", ".", "c", "o", "m">>, <<"a", "i", ".", "s", "o", "l">>, <<"b", "t", "c", ".", "e", "t", "h">>,
       <<"e", "t", "h", "e", "r", "e", "u", "m", ".", "s", "o", "l">>, <<"d", "e", "g", "e", "n", ".", "e", "t", "h">>, <<"u", "n", "i", "s", "w", "a", "p", ".", "e", "t", "h">>, <<"o", "p", "e", "n", "s", "e", "a", ".", "e", "t", "h">>,
       <<"c", "o", "i", "n", "b", "a", "s", "e", ".", "s", "o", "l">>, <<"b", "i", "n", "a", "n", "c", "e", ".", "c", "o", "m">>, <<"p", "o", "l", "y", "g", "o", "n", ".", "e", "t", "h">>, <<"s", "o", "l", "a", "n", "a", ".", "s", "o", "l">> >>

\* createFallbackTrendingDomain(domainName); its other fields are drawn with
\* Math.random and are left out
createFallbackTrendingDomain(domainName) ==
    [id |-> domainName, name |-> domainName, priceChange24h |-> 0]

\* createTrendingDomainFromNameData(nameData); rarityScore, marketValue,
\* volume24h and priceChange24h are left out
createTrendingDomainFromNameData(nameData) ==
    [id |-> nameData.name[1],
     name |-> nameData.name[1],
     activityCount |->
         OrElse(Some(nameData.activityCount), OrElse(nameData.activeOffersCount, 1)),
     lastActivity |-> nameData.tokenizedAt[1]]

\* applyFilters(domains, undefined)
applyFilters(ds) == ds

\* the response built from a list of trending domains
ResponseOf(filteredDomains) ==
    [domains |-> filteredDomains, totalCount |-> Len(filteredDomains)]

\* the fallback to the curated list
fallbackResponse(lim) ==
    LET ds == <<>> \o [i \in 1..Len(slice(POPULAR_DOMAINS, lim)) |->
                        createFallbackTrendingDomain(POPULAR_DOMAINS[i])]
    IN  Fulfilled(ResponseOf(applyFilters(ds)))

\* a plausible slip: the error of the API branch thrown on to the caller
afterApiErrorRethrown(lim) == Rejected

\* the inner catch logs the error and falls through to the fallback
afterApiError(lim) == fallbackResponse(lim)

\* the API branch once the efficient service has answered: rank, transform,
\* filter, return
apiResponse(answer, lim, t) ==
    LET domainsWithRealData == answer
        selectedDomains == execute(domainsWithRealData, lim, t)
        trendingDomains ==
            <<>> \o [i \in 1..Len(selectedDomains) |->
                      createTrendingDomainFromNameData(selectedDomains[i])]
    IN  Fulfilled(ResponseOf(applyFilters(trendingDomains)))

\* fetchTrendingDomains(lim) with or without NEXT_PUBLIC_DOMA_API_KEY, up to
\* its await or, without a key, to its return
FetchTrendingDomains(lim, hasAPIKey) ==
    /\ trendPc = "idle"
    /\ trendLimit' = lim
    /\ IF hasAPIKey
       THEN /\ trendPc' = "awaiting"
            /\ UNCHANGED trendResponse
       ELSE /\ trendPc' = "noKey"
            /\ trendResponse' = fallbackResponse(lim)
    /\ UNCHANGED <<coreVars, dataVars, effVars, pageVars, efficientDomains>>

\* fetchEfficientTrendingDomains(limit * 2) resolves, and the rest of the try
\* block runs to its return
EfficientResolves(answer) ==
    /\ trendPc = "awaiting"
    /\ efficientDomains' = answer
    /\ trendResponse' = apiResponse(answer, trendLimit, now)
    /\ trendPc' = "api"
    /\ UNCHANGED <<coreVars, dataVars, effVars, pageVars, trendLimit>>

\* fetchEfficientTrendingDomains(limit * 2) rejects
EfficientRejects ==
    /\ trendPc = "awaiting"
    /\ trendResponse' = afterApiError(trendLimit)
    /\ trendPc' = "serviceFailed"
    /\ UNCHANGED <<coreVars, dataVars, effVars, pageVars, trendLimit, efficientDomains>>

\* the service resolves and a later step of the try block throws
RankingThrows(answer) ==
    /\ trendPc = "awaiting"
    /\ efficientDomains' = answer
    /\ trendResponse' = afterApiError(trendLimit)
    /\ trendPc' = "rankingFailed"
    /\ UNCHANGED <<coreVars, dataVars, effVars, pageVars, trendLimit>>

\* the lists the efficient service answers with
EfficientRecords ==
    { Rec(Some(<<"a", "i", ".", "a", "i">>), On(-3), undefined, Some(6), Some(12)),
      Rec(Some(LongName), On(-40), ListingPrice(1, 16), Some(0), Some(3)),
      Rec(Some(<<"e", "t", "h", ".", "c", "o", "m">>), On(-10), ListingPrice(5, 17), Some(0), Some(3)) }
EfficientLists ==
    LET lists == UNION {[1..n -> EfficientRecords] : n \in 0..MaxEfficient}
    IN  {<<>> \o [i \in 1..Len(l) |-> WithObj(l[i], i)] : l \in lists}

TrendingNext ==
    \/ \E lim \in Limits : \E hasAPIKey \in BOOLEAN : FetchTrendingDomains(lim, hasAPIKey)
    \/ \E answer \in EfficientLists : EfficientResolves(answer)
    \/ EfficientRejects
    \/ \E answer \in EfficientLists : RankingThrows(answer)

-----------------------------------------------------------------------------
(* fetchDomainData *)

\* x || []
OrEmpty(x) == IF IsPresent(x) THEN x[1] ELSE <<>>

\* the object fetchDomainData returns once the four queries have settled;
\* null is undefined here
settledData(rs) ==
    [domain |->
        IF rs["domain"].status = "fulfilled" THEN rs["domain"].value.name ELSE undefined,
     stats |->
        IF rs["stats"].status = "fulfilled" THEN rs["stats"].value.nameStatistics
        ELSE undefined,
     listings |->
        IF rs["listingsOffers"].status = "fulfilled"
        THEN OrEmpty(rs["listingsOffers"].value.listings) ELSE <<>>,
     offers |->
        IF rs["listingsOffers"].status = "fulfilled"
        THEN OrEmpty(rs["listingsOffers"].value.offers) ELSE <<>>,
     activities |->
        IF rs["activities"].status = "fulfilled"
        THEN OrEmpty(rs["activities"].value.nameActivities) ELSE <<>>]

\* a plausible slip: Promise.all in place of Promise.allSettled
fetchDomainDataWithPromiseAll(rs) ==
    IF \E q \in DataQueries : rs[q].status = "rejected" THEN Rejected
    ELSE Fulfilled(settledData(rs))

\* the settlement of fetchDomainData given those of its four queries
fetchDomainDataSettlement(rs) == Fulfilled(settledData(rs))

\* fetchDomainData(domainName), up to its await
FetchDomainData(domainName) ==
    /\ dataPc = "idle"
    /\ formattedName' = formatDomainName(domainName)
    /\ dataPc' = "waiting"
    /\ UNCHANGED <<coreVars, trendVars, effVars, pageVars, results, dataResult>>

\* graphqlClient.request of query q settles
QuerySettles(q, outcome) ==
    /\ dataPc = "waiting"
    /\ results[q] = Pending
    /\ results' = [results EXCEPT ![q] = outcome]
    /\ UNCHANGED <<coreVars, trendVars, effVars, pageVars, dataPc, formattedName, dataResult>>

\* Promise.allSettled resolves and fetchDomainData returns
AllSettled ==
    /\ dataPc = "waiting"
    /\ \A q \in DataQueries : results[q] # Pending
    /\ dataResult' = fetchDomainDataSettlement(results)
    /\ dataPc' = "settled"
    /\ UNCHANGED <<coreVars, trendVars, effVars, pageVars, formattedName, results>>

\* what a query may answer
DataNames == {<<"c", "r", "y", "p", "t", "o">>, <<"w", "w", "w", ".", "x", ".", "i", "o">>}
SomeDomain == [name |-> <<"x", ".", "i", "o">>, tokens |-> <<>>]
SomeStats == [salesCount |-> 3]
Outcomes(q) ==
    {Rejected} \cup
    CASE q = "domain" ->
           {Fulfilled([name |-> d]) : d \in {undefined, Some(SomeDomain)}}
      [] q = "stats" ->
           {Fulfilled([nameStatistics |-> s]) : s \in {undefined, Some(SomeStats)}}
      [] q = "listingsOffers" ->
           {Fulfilled([listings |-> l, offers |-> o]) :
               l \in {undefined, Some(<<>>), Some(<<"listing">>)},
               o \in {undefined, Some(<<"offer", "offer">>)}}
      [] q = "activities" ->
           {Fulfilled([nameActivities |-> a]) :
               a \in {undefined, Some(<<>>), Some(<<"activity">>)}}

DataNext ==
    \/ \E domainName \in DataNames : FetchDomainData(domainName)
    \/ \E q \in DataQueries : \E outcome \in Outcomes(q) : QuerySettles(q, outcome)
    \/ AllSettled

-----------------------------------------------------------------------------
(* fetchEfficientTrendingDomains *)

\* allDomainsMap: its entries in insertion order, one for each key
has(map, key) == \E i \in 1..Len(map) : map[i].name = key
set(map, key, value) ==
    IF has(map, key)
    THEN <<>> \o [i \in 1..Len(map) |-> IF map[i].name = key THEN value ELSE map[i]]
    ELSE Append(map, value)

\* combinedScore = priceScore * 0.6 + activityScore * 0.4, in units of 0.0001
combinedScoreOf(priceInMilli, activityScore) == priceInMilli * 6 + activityScore * 4000

\* the body of recentListings.forEach
addRecentListing(map, listing) ==
    set(map, listing.name,
        [name |-> listing.name,
         tokenizedAt |-> listing.createdAt,
         activeOffersCount |-> 0,
         activityCount |-> 3,
         listingPrice |-> Some(listing.price),
         combinedScore |-> combinedScoreOf(priceInMilliETH(listing.price), 3),
         priority |-> "recent_listing"])

\* a plausible slip: the entry of a recent listing overwritten
addDomainWithOffersOverwriting(map, domain) ==
    set(map, domain.name,
        [name |-> domain.name,
         tokenizedAt |-> domain.tokenizedAt,
         activeOffersCount |-> OrElse(Some(domain.activeOffersCount), 0),
         activityCount |-> 2,
         listingPrice |-> undefined,
         combinedScore |-> combinedScoreOf(0, 2),
         priority |-> "has_offers"])

\* the body of domainsWithOffers.forEach
addDomainWithOffers(map, domain) ==
    IF ~has(map, domain.name)
    THEN set(map, domain.name,
             [name |-> domain.name,
              tokenizedAt |-> domain.tokenizedAt,
              activeOffersCount |-> OrElse(Some(domain.activeOffersCount), 0),
              activityCount |-> 2,
              listingPrice |-> undefined,
              combinedScore |-> combinedScoreOf(0, 2),
              priority |-> "has_offers"])
    ELSE map

\* the body of listedDomains.forEach
addListedDomain(map, domain) ==
    IF ~has(map, domain.name)
    THEN set(map, domain.name,
             [name |-> domain.name,
              tokenizedAt |-> domain.tokenizedAt,
              activeOffersCount |-> OrElse(Some(domain.activeOffersCount), 0),
              activityCount |-> 1,
              listingPrice |-> undefined,
              combinedScore |-> combinedScoreOf(0, 1),
              priority |-> "listed"])
    ELSE map

\* items.forEach(body) from the map given
RECURSIVE forEachListing(_, _)
forEachListing(items, map) ==
    IF items = <<>> THEN map
    ELSE addRecentListing(forEachListing(SubSeq(items, 1, Len(items) - 1), map),
                          items[Len(items)])
RECURSIVE forEachWithOffers(_, _)
forEachWithOffers(items, map) ==
    IF items = <<>> THEN map
    ELSE addDomainWithOffers(forEachWithOffers(SubSeq(items, 1, Len(items) - 1), map),
                             items[Len(items)])
RECURSIVE forEachListed(_, _)
forEachListed(items, map) ==
    IF items = <<>> THEN map
    ELSE addListedDomain(forEachListed(SubSeq(items, 1, Len(items) - 1), map),
                         items[Len(items)])

\* allDomains.sort((a, b) => b.combinedScore - a.combinedScore), a stable sort
RECURSIVE insertByCombinedScore(_, _)
insertByCombinedScore(sorted, e) ==
    IF sorted = <<>> THEN <<e>>
    ELSE IF sorted[Len(sorted)].combinedScore >= e.combinedScore THEN Append(sorted, e)
    ELSE Append(insertByCombinedScore(SubSeq(sorted, 1, Len(sorted) - 1), e),
                sorted[Len(sorted)])
RECURSIVE sortByCombinedScore(_)
sortByCombinedScore(ds) ==
    IF ds = <<>> THEN <<>>
    ELSE insertByCombinedScore(sortByCombinedScore(SubSeq(ds, 1, Len(ds) - 1)),
                               ds[Len(ds)])

\* fetchEfficientTrendingDomains(lim) once its query has answered
fetchEfficientTrendingDomains(listings, withOffers, listed, lim) ==
    LET allDomainsMap ==
            forEachListed(listed, forEachWithOffers(withOffers,
                forEachListing(listings, <<>>)))
        sortedDomains == sortByCombinedScore(allDomainsMap)
    IN  slice(sortedDomains, lim)

\* the answer of the query holds one more recent listing, domain with offers
\* or listed domain
AnswerRecentListing(listing) ==
    /\ effPc = "awaiting"
    /\ Len(recentListings) < MaxItems
    /\ recentListings' = Append(recentListings, listing)
    /\ UNCHANGED <<coreVars, trendVars, dataVars, pageVars, effPc, domainsWithOffers, listedDomains,
                   effLimit, effResult>>
AnswerDomainWithOffers(domain) ==
    /\ effPc = "awaiting"
    /\ Len(domainsWithOffers) < MaxItems
    /\ domainsWithOffers' = Append(domainsWithOffers, domain)
    /\ UNCHANGED <<coreVars, trendVars, dataVars, pageVars, effPc, recentListings, listedDomains,
                   effLimit, effResult>>
AnswerListedDomain(domain) ==
    /\ effPc = "awaiting"
    /\ Len(listedDomains) < MaxItems
    /\ listedDomains' = Append(listedDomains, domain)
    /\ UNCHANGED <<coreVars, trendVars, dataVars, pageVars, effPc, recentListings,
                   domainsWithOffers, effLimit, effResult>>

\* fetchEfficientTrendingDomains(lim): the query answers and the function returns
FetchEfficient(lim) ==
    /\ effPc = "awaiting"
    /\ effLimit' = lim
    /\ effResult' =
         Fulfilled(fetchEfficientTrendingDomains(recentListings, domainsWithOffers,
                                                 listedDomains, lim))
    /\ effPc' = "done"
    /\ UNCHANGED <<coreVars, trendVars, dataVars, pageVars, recentListings, domainsWithOffers,
                   listedDomains>>

\* fetchEfficientTrendingDomains(lim): the query fails and the catch rethrows
FetchEfficientFails(lim) ==
    /\ effPc = "awaiting"
    /\ recentListings = <<>> /\ domainsWithOffers = <<>> /\ listedDomains = <<>>
    /\ effLimit' = lim
    /\ effResult' = Rejected
    /\ effPc' = "failed"
    /\ UNCHANGED <<coreVars, trendVars, dataVars, pageVars, recentListings, domainsWithOffers,
                   listedDomains>>

\* the items of an answer
ListingItems ==
    { [name |-> <<"x", ".", "s", "o", "l">>, price |-> [digits |-> 1, zeros |-> 15], createdAt |-> On(-1)[1]],
      [name |-> <<"x", ".", "s", "o", "l">>, price |-> [digits |-> 2, zeros |-> 18], createdAt |-> On(-2)[1]],
      [name |-> <<"y", ".", "s", "o", "l">>, price |-> [digits |-> 5, zeros |-> 17], createdAt |-> On(-1)[1]] }
WithOffersItems ==
    { [name |-> n, tokenizedAt |-> On(-3)[1], activeOffersCount |-> 2] :
        n \in {<<"x", ".", "s", "o", "l">>, <<"y", ".", "s", "o", "l">>, <<"z", ".", "s", "o", "l">>} }
ListedItems ==
    { [name |-> n, tokenizedAt |-> On(-10)[1], activeOffersCount |-> 0] :
        n \in {<<"y", ".", "s", "o", "l">>, <<"z", ".", "s", "o", "l">>} }

EfficientNext ==
    \/ \E listing \in ListingItems : AnswerRecentListing(listing)
    \/ \E domain \in WithOffersItems : AnswerDomainWithOffers(domain)
    \/ \E domain \in ListedItems : AnswerListedDomain(domain)
    \/ \E lim \in Limits : FetchEfficient(lim)
    \/ \E lim \in Limits : FetchEfficientFails(lim)

-----------------------------------------------------------------------------
(* AnalyticsPage *)

\* what getDomainAnalytics(domain) resolves with, and the message of its error
analyticsOf(domain) == [domain |-> domain]
messageOf(domain) == [failed |-> domain]

\* handleSearchForDomain(domain), up to its await
BeginSearch(domain) ==
    /\ Len(started) < MaxSearches
    /\ pageLoading' = TRUE
    /\ pageError' = <<>>
    /\ pageData' = <<>>
    /\ started' = Append(started, domain)
    /\ inFlight' = inFlight \cup {[id |-> Len(started) + 1, domain |-> domain]}

\* the effect run on mount, with the domain parameter of the URL or without
Mount(domainParam) ==
    /\ urlTimer.at = "unmounted"
    /\ IF TruthyString(domainParam)
       THEN /\ pageQuery' = domainParam[1]
            /\ urlTimer' = [at |-> "armed", domain |-> domainParam[1]]
       ELSE /\ UNCHANGED pageQuery
            /\ urlTimer' = [at |-> "none"]
    /\ UNCHANGED <<coreVars, trendVars, dataVars, effVars, pageData, pageLoading,
                   pageError, inFlight, started>>

\* the 100 ms timer of the effect fires
TimerFires ==
    /\ urlTimer.at = "armed"
    /\ BeginSearch(urlTimer.domain)
    /\ urlTimer' = [at |-> "none"]
    /\ UNCHANGED <<coreVars, trendVars, dataVars, effVars, pageQuery>>

\* onChange of the input box
TypeDomain(q) ==
    /\ urlTimer.at # "unmounted"
    /\ pageQuery' = q
    /\ UNCHANGED <<coreVars, trendVars, dataVars, effVars, pageData, pageLoading,
                   pageError, urlTimer, inFlight, started>>

\* handleSearch()
handleSearchStep ==
    /\ Len(trim(pageQuery)) > 0
    /\ BeginSearch(trim(pageQuery))
    /\ UNCHANGED <<coreVars, trendVars, dataVars, effVars, pageQuery, urlTimer>>

\* onKeyPress with the Enter key
PressEnter ==
    /\ urlTimer.at # "unmounted"
    /\ handleSearchStep

\* onClick of the Analyze button, which is disabled while isLoading or while
\* the trimmed query is empty
ClickAnalyze ==
    /\ urlTimer.at # "unmounted"
    /\ ~pageLoading
    /\ handleSearchStep

\* getDomainAnalytics resolves for a waiting call: setDomainData, then finally
AnalyticsResolves(search) ==
    /\ search \in inFlight
    /\ pageData' = Some(analyticsOf(search.domain))
    /\ pageLoading' = FALSE
    /\ inFlight' = inFlight \ {search}
    /\ UNCHANGED <<coreVars, trendVars, dataVars, effVars, pageQuery, pageError,
                   urlTimer, started>>

\* getDomainAnalytics rejects for a waiting call: setError, then finally
AnalyticsRejects(search) ==
    /\ search \in inFlight
    /\ pageError' = Some(messageOf(search.domain))
    /\ pageLoading' = FALSE
    /\ inFlight' = inFlight \ {search}
    /\ UNCHANGED <<coreVars, trendVars, dataVars, effVars, pageQuery, pageData,
                   urlTimer, started>>

PageParams == {undefined, Some(<<"a", ".", "s", "o", "l">>)}
PageQueries == {<<" ">>, <<"b", ".", "s", "o", "l">>, <<" ", "c", ".", "s", "o", "l", " ">>}

PageNext ==
    \/ \E domainParam \in PageParams : Mount(domainParam)
    \/ TimerFires
    \/ \E q \in PageQueries : TypeDomain(q)
    \/ PressEnter
    \/ ClickAnalyze
    \/ \E search \in inFlight : AnalyticsResolves(search)
    \/ \E search \in inFlight : AnalyticsRejects(search)

Next == ScoreNext \/ RankNext \/ SearchNext \/ TrendingNext \/ DataNext \/ EfficientNext
        \/ PageNext

\* the scorer alone, the ranker alone, the search box alone, and all together
SpecScore == Init /\ [][ScoreNext]_vars
SpecRank == Init /\ [][RankNext]_vars
SpecSearch == Init /\ [][SearchNext]_vars
SpecTrending == Init /\ [][TrendingNext]_vars
SpecData == Init /\ [][DataNext]_vars
SpecEfficient == Init /\ [][EfficientNext]_vars
SpecPage == Init /\ [][PageNext]_vars
Spec == Init /\ [][Next]_vars

-----------------------------------------------------------------------------
(* The latest scorer call: its arguments and the local variables of        *)
(* calculateDomainScore                                                    *)

scored_domain == scoreArgs[1].domain
lengthScore == calculateLengthScore(scored_domain.labelName)
patternScore == calculatePatternScore(scored_domain.labelName)
tldScore == calculateTLDScore(extractTLD(scored_domain.id))
activityScore == calculateActivityScore(scoreArgs[1].stats, scoreArgs[1].activities)
expirationScore == calculateExpirationScore(scored_domain.createdAt, scoreAt)
weightedSum ==
    WeightedSum(lengthScore, patternScore, tldScore, activityScore, expirationScore)

IsLetter(c) == c \in LowerLetters \cup UpperLetters

-----------------------------------------------------------------------------
(* Properties *)

\* C1: every result of calculateDomainScore has an integer totalScore with
\* 0 <= totalScore <= 100, whatever the label, TLD, stats, activities and age.
C1_TotalScoreInRange ==
    scoreResult # <<>> => scoreResult[1].totalScore \in 0..100

\* a call whose weighted sum exceeds 1 (a one-character label with every other
\* factor at its maximum), so that the final clamp decides the result
C1_Witness ==
    /\ scoreResult # <<>>
    /\ weightedSum > 100 * One
    /\ scoreResult[1].totalScore = 100

C3_Case ==
    /\ scoreResult # <<>>
    /\ Len(scored_domain.labelName) = 1
    /\ IsLetter(scored_domain.labelName[1])
    /\ scored_domain.id = scored_domain.labelName \o <<".", "c", "o", "m">>
    /\ scoreArgs[1].stats = undefined
    /\ scoreArgs[1].activities = undefined
    /\ scoreAt - scored_domain.createdAt = 400

C4_LengthFactorClamped ==
    scoreResult # <<>> =>
        LET length == Len(scored_domain.labelName) IN
        lengthScore =
            IF length < minLength THEN One
            ELSE IF length > maxLength THEN 0
            ELSE One - ((length - minLength) * One) \div (maxLength - minLength)

\* C5: each of the five breakdown values is an integer in [0, 100] and equals
\* round(100 x factor).
C5_BreakdownInRange ==
    scoreResult # <<>> =>
        LET b == scoreResult[1].breakdown IN
        /\ b.length \in 0..100 /\ b.length = RoundPercent(lengthScore)
        /\ b.pattern \in 0..100 /\ b.pattern = RoundPercent(patternScore)
        /\ b.tld \in 0..100 /\ b.tld = RoundPercent(tldScore)
        /\ b.activity \in 0..100 /\ b.activity = RoundPercent(activityScore)
        /\ b.expiration \in 0..100 /\ b.expiration = RoundPercent(expirationScore)

\* C6 as stated: two calls with identical arguments, whenever they are made,
\* return identical results.
C6_Original ==
    scoreResult # <<>> => scoreResult = firstResult

\* C6 amended: two calls with identical arguments return identical length,
\* pattern, tld and activity values and descriptions; the expiration value and
\* description and the totalScore depend on the time of the call: they are
\* identical for calls made at the same time, and for a later call the
\* expiration value and the totalScore are never greater than for the earlier.
C6_Amended ==
    scoreResult # <<>> =>
        LET a == firstResult[1]
            b == scoreResult[1]
        IN  /\ b.breakdown.length = a.breakdown.length
            /\ b.breakdown.pattern = a.breakdown.pattern
            /\ b.breakdown.tld = a.breakdown.tld
            /\ b.breakdown.activity = a.breakdown.activity
            /\ b.factors.length = a.factors.length
            /\ b.factors.pattern = a.factors.pattern
            /\ b.factors.tld = a.factors.tld
            /\ b.factors.activity = a.factors.activity
            /\ scoreAt >= firstAt
            /\ b.breakdown.expiration <= a.breakdown.expiration
            /\ b.totalScore <= a.totalScore
            /\ scoreAt = firstAt => b = a

\* the same call made again later, with another totalScore and another
\* expiration description
C6_Witness ==
    /\ scoreResult # <<>>
    /\ scoreAt > firstAt
    /\ scoreResult[1].totalScore < firstResult[1].totalScore
    /\ scoreResult[1].factors.expiration # firstResult[1].factors.expiration

InvalidNameMessage == Some("Please enter a valid domain name")

ValidCount ==
    Cardinality({i \in 1..Len(domains) :
                    IsPresent(domains[i].tokenizedAt) /\ TruthyString(domains[i].name)})

\* C8: execute(domains, {limit}) returns at most limit elements.
C8_AtMostLimit ==
    rankPc = "done" => Len(ranked) <= limit

\* a call on 20 or more valid domains whose result the limit cut short
C8_Witness ==
    /\ rankPc = "done"
    /\ ValidCount >= mixThreshold
    /\ limit > 0
    /\ Len(ranked) = limit

\* C9: the returned sequence is in non-increasing order of trendingScore.
C9_SortedByTrendingScore ==
    rankPc = "done" =>
        \A i \in 1..Len(ranked) : \A j \in 1..Len(ranked) :
            i < j => ranked[i].trendingScore >= ranked[j].trendingScore

\* a result in which the sort moved a higher-scored record in front of a
\* lower-scored one that preceded it in the input
C9_Witness ==
    /\ rankPc = "done"
    /\ \E i \in 1..Len(ranked) : \E j \in 1..Len(ranked) :
          /\ i < j
          /\ ranked[i].trendingScore > ranked[j].trendingScore
          /\ ranked[i].src > ranked[j].src

\* the activityCount and activeOffersCount supplied in the input record a
\* returned element was made from (an absent count counts as 0)
SuppliedActivityCount(e) == OrElse(domains[e.src].activityCount, 0)
SuppliedOffersCount(e) == OrElse(domains[e.src].activeOffersCount, 0)

\* C10: returned elements with equal trendingScore are in descending order of
\* the supplied activityCount, and with that equal too, in descending order of
\* activeOffersCount.
C10_TieBreaks ==
    rankPc = "done" =>
        \A i \in 1..Len(ranked) : \A j \in 1..Len(ranked) :
            (i < j /\ ranked[i].trendingScore = ranked[j].trendingScore) =>
                /\ SuppliedActivityCount(ranked[i]) >= SuppliedActivityCount(ranked[j])
                /\ SuppliedActivityCount(ranked[i]) = SuppliedActivityCount(ranked[j])
                     => SuppliedOffersCount(ranked[i]) >= SuppliedOffersCount(ranked[j])


\* two returned elements that the comparator of the sort cannot tell apart
Tied(a, b) ==
    /\ a.trendingScore = b.trendingScore
    /\ a.activityCount = b.activityCount
    /\ a.activeOffersCount = b.activeOffersCount

\* the input record a returned element was made from
InputOf(e) == domains[e.src]

\* the age group, at time t and at the first call, of a record that has a
\* tokenizedAt: tokenized within the last 7 days, earlier, or at no time when
\* the tokenizedAt is no date
AgeGroupAt(d, t) ==
    LET tokenizedAt == getTime(d.tokenizedAt[1]) IN
    IF tokenizedAt = undefined THEN "none"
    ELSE IF tokenizedAt[1] >= t - recentDays THEN "recent" ELSE "older"
AgeGroup(d) == AgeGroupAt(d, rankedAt)
TokenizedRecently(d) == AgeGroup(d) = "recent"

\* C11 as stated: two returned elements with equal trendingScore, activityCount
\* and activeOffersCount are in the order of the input array, whatever its size.
C11_Original ==
    rankPc = "done" =>
        \A i \in 1..Len(ranked) : \A j \in (i + 1)..Len(ranked) :
            Tied(ranked[i], ranked[j]) => ranked[i].src < ranked[j].src

\* C11 amended: two returned elements with equal trendingScore, activityCount
\* and activeOffersCount are in the order of the input array when fewer than 20
\* input records have a name and a tokenizedAt; with 20 or more, an element
\* tokenized within the last 7 days precedes one tokenized earlier, and two
\* elements of the same group are in the order of the input array.
C11_Amended ==
    rankPc = "done" =>
        LET mixed == ValidCount >= mixThreshold IN
        \A i \in 1..Len(ranked) : \A j \in (i + 1)..Len(ranked) :
            Tied(ranked[i], ranked[j]) =>
                LET a == InputOf(ranked[i])
                    b == InputOf(ranked[j])
                IN  IF mixed /\ TokenizedRecently(a) # TokenizedRecently(b)
                    THEN TokenizedRecently(a)
                    ELSE ranked[i].src < ranked[j].src

\* of two tied records the one tokenized earlier came first in the input and
\* is returned last
C11_Witness ==
    /\ rankPc = "done"
    /\ ValidCount >= mixThreshold
    /\ \E i \in 1..Len(ranked) : \E j \in 1..Len(ranked) :
          /\ i < j
          /\ Tied(ranked[i], ranked[j])
          /\ ranked[i].src > ranked[j].src
          /\ AgeGroup(InputOf(ranked[j])) = "older"

\* the input record at position k has a name and a tokenizedAt
IsValidAt(k) == IsPresent(domains[k].tokenizedAt) /\ TruthyString(domains[k].name)

\* the input record at position k is absent from the result
AbsentAt(k) == \A i \in 1..Len(ranked) : ranked[i].src # k

\* the trendingScore of the input record at position k
TrendingScoreAt(k) == scoreOne(domains[k]).trendingScore

\* the place of the valid record at position k among the valid records of its
\* age group (tokenized within the last 7 days, or earlier)
PlaceInGroup(k) ==
    Cardinality({j \in 1..k :
                    /\ IsValidAt(j)
                    /\ AgeGroup(domains[j]) = AgeGroup(domains[k])})

\* the positions of the valid records that are scored: all of them when they
\* are fewer than mixThreshold, else the first recentTake tokenized within the
\* last 7 days and the first olderTake tokenized earlier, or, when no
\* tokenizedAt is a date, the first fallbackTake
Candidates ==
    LET valid == {k \in 1..Len(domains) : IsValidAt(k)} IN
    IF Cardinality(valid) < mixThreshold THEN valid
    ELSE IF \A k \in valid : AgeGroup(domains[k]) = "none"
    THEN {k \in valid : PlaceInGroup(k) <= fallbackTake}
    ELSE {k \in valid :
            /\ AgeGroup(domains[k]) # "none"
            /\ PlaceInGroup(k) <=
                 (IF TokenizedRecently(domains[k]) THEN recentTake ELSE olderTake)}

\* the lowest trendingScore of the result
LowestReturned ==
    CHOOSE s \in {ranked[i].trendingScore : i \in 1..Len(ranked)} :
        \A i \in 1..Len(ranked) : s <= ranked[i].trendingScore

\* C12 as stated: no input record with a name and a tokenizedAt that is absent
\* from the result has a trendingScore strictly greater than a returned one.
C12_Original ==
    (rankPc = "done" /\ ranked # <<>>) =>
        LET lowest == LowestReturned IN
        \A k \in 1..Len(domains) :
            (IsValidAt(k) /\ AbsentAt(k)) => TrendingScoreAt(k) <= lowest

\* C12 amended: the candidates are the valid records (name and tokenizedAt)
\* when there are fewer than 20 of them, and otherwise only the first 20 valid
\* records tokenized within the last 7 days and the first 15 tokenized earlier,
\* in input order; only candidates are returned, and no candidate absent from
\* the result has a trendingScore strictly greater than a returned one.
C12_Amended ==
    (rankPc = "done" /\ ranked # <<>>) =>
        LET candidates == Candidates
            lowest == LowestReturned
        IN  /\ \A i \in 1..Len(ranked) : ranked[i].src \in candidates
            /\ \A k \in candidates : AbsentAt(k) => TrendingScoreAt(k) <= lowest

\* a valid record that is no candidate, whose trendingScore is above that of a
\* returned record, and a candidate that the limit kept out of the result
C12_Witness ==
    /\ rankPc = "done"
    /\ ranked # <<>>
    /\ \E k \in 1..Len(domains) :
          /\ IsValidAt(k)
          /\ k \notin Candidates
          /\ TrendingScoreAt(k) > LowestReturned
    /\ \E k \in Candidates : AbsentAt(k)

\* the fields of an input record other than its identity and its tokenizedAt
GivenFields(d) ==
    [name |-> d.name, listingPrice |-> d.listingPrice,
     activeOffersCount |-> d.activeOffersCount, activityCount |-> d.activityCount]

C13_First ==
    [name |-> Some(<<"a", "i", ".", "a", "i">>), listingPrice |-> undefined,
     activeOffersCount |-> Some(6), activityCount |-> Some(12)]
C13_Second ==
    [name |-> Some(LongName), listingPrice |-> undefined,
     activeOffersCount |-> Some(0), activityCount |-> Some(0)]

\* execute was called with limit 2 on the two records of C13, in either order
C13_Case ==
    /\ rankPc = "done"
    /\ limit = 2
    /\ Len(domains) = 2
    /\ {GivenFields(domains[1]), GivenFields(domains[2])} = {C13_First, C13_Second}

\* the names of the returned elements, in order
RankedNames == [i \in 1..Len(ranked) |-> ranked[i].name[1]]

\* C13 as stated: the two records, given exactly these fields (so without a
\* tokenizedAt), ranked with limit 2 give ai.ai first and
\* verylongdomainname.net second.
C13_Original ==
    (/\ C13_Case
     /\ GivenFields(domains[1]) = C13_First
     /\ \A k \in 1..2 : domains[k].tokenizedAt = undefined)
        => RankedNames = <<<<"a", "i", ".", "a", "i">>, LongName>>

\* C13 amended: of the two records, in either order and with limit 2, exactly
\* those that carry a tokenizedAt are returned, ai.ai before
\* verylongdomainname.net: both when both carry one, none when the records are
\* given exactly the fields of the claim.
C13_Amended ==
    C13_Case =>
        LET Kept(given) ==
                \E k \in 1..2 :
                    GivenFields(domains[k]) = given /\ IsPresent(domains[k].tokenizedAt)
        IN  RankedNames =
                (IF Kept(C13_First) THEN <<<<"a", "i", ".", "a", "i">>>> ELSE <<>>)
                \o (IF Kept(C13_Second) THEN <<LongName>> ELSE <<>>)

\* both records carry a tokenizedAt, verylongdomainname.net came first in the
\* input and ai.ai is returned first
C13_Witness ==
    /\ C13_Case
    /\ GivenFields(domains[1]) = C13_Second
    /\ \A k \in 1..2 : IsPresent(domains[k].tokenizedAt)
    /\ RankedNames = <<<<"a", "i", ".", "a", "i">>, LongName>>

\* ten times the weighted sum 0.2 p + 0.2 a + 0.2 o + 0.4 c of a scored record
TenfoldSum(e) ==
    2 * e.priceScore + 2 * e.activityScore + 2 * e.offersScore
    + 4 * e.characteristicsScore

C15_ActivityFactor ==
    scoreResult # <<>> =>
        LET stats == scoreArgs[1].stats
            activities == scoreArgs[1].activities
            count == IF activities = undefined THEN 0 ELSE Len(activities[1])
        IN  IF stats = undefined
            THEN /\ activityScore = Tenths(2)
                 /\ scoreResult[1].breakdown.activity = 20
            ELSE LET most == Max(stats[1].salesCount, count) IN
                 /\ most >= 10 => activityScore = Tenths(10)
                 /\ (most >= 3 /\ most < 10) => activityScore = Tenths(7)
                 /\ (most >= 1 /\ most < 3) => activityScore = Tenths(4)
                 /\ most < 1 => activityScore = Tenths(2)

\* a call without stats and with ten activities
C15_Witness ==
    /\ scoreResult # <<>>
    /\ scoreArgs[1].stats = undefined
    /\ scoreArgs[1].activities # undefined
    /\ Len(scoreArgs[1].activities[1]) >= 10
    /\ scoreResult[1].breakdown.activity = 20

\* the age of the scored domain, in days, at the latest and at the first call
AgeAtCall == scoreAt - scored_domain.createdAt
AgeAtFirstCall == firstAt - scored_domain.createdAt

OnlyLetters(s) == \A i \in 1..Len(s) : IsLetter(s[i])
OnlyDigits(s) == \A i \in 1..Len(s) : s[i] \in Digits
OnlyLettersDigits(s) == \A i \in 1..Len(s) : IsLetter(s[i]) \/ s[i] \in Digits
OnlyLettersDigitsHyphens(s) ==
    \A i \in 1..Len(s) : IsLetter(s[i]) \/ s[i] \in Digits \/ s[i] = "-"

DotsOfId == {i \in 1..Len(scored_domain.id) : scored_domain.id[i] = "."}

\* the key looked up in TLD_RARITY: '.' and what follows the last '.' of the
\* id, lower-cased; the empty string for an id without '.'
KeyOfId ==
    IF DotsOfId = {} THEN <<>>
    ELSE LET last == CHOOSE i \in DotsOfId : \A j \in DotsOfId : j <= i
         IN  toLowerCase(SubSeq(scored_domain.id, last, Len(scored_domain.id)))

UnknownTLDDescription == "Unknown TLD - uncertain value"

\* C18: the TLD factor is the TLD_RARITY entry of the suffix after the last
\* '.' of the id (with its dot, lower-cased), and 0.5 when the table has no
\* such entry or the id has no '.'; the TLD description is 'Unknown TLD -
\* uncertain value' exactly when the default is used.
C18_TLDFactor ==
    scoreResult # <<>> =>
        LET known == {e \in TLD_RARITY : e[1] = KeyOfId} IN
        /\ \A e \in known : tldScore = e[2]
        /\ known = {} => tldScore = Tenths(5)
        /\ (scoreResult[1].factors.tld = UnknownTLDDescription) <=> (known = {})
        /\ scoreResult[1].breakdown.tld = RoundPercent(tldScore)

\* an id whose TLD is in the table under another case
C18_Witness ==
    /\ scoreResult # <<>>
    /\ DotsOfId # {}
    /\ \E e \in TLD_RARITY : e[1] = KeyOfId /\ e[1] # extractTLD(scored_domain.id)
    /\ scoreResult[1].breakdown.tld = 100

\* the listing price, a number of wei, is at least m * 10^z wei
AtLeastWei(listingPrice, m, z) ==
    LET k == Min(listingPrice.zeros, z) IN
    listingPrice.digits * 10 ^ (listingPrice.zeros - k) >= m * 10 ^ (z - k)

\* C19: with a listingPrice the priceScore is the bucket of listingPrice /
\* 10^18: >= 0.5 -> 100, >= 0.1 -> 80, >= 0.05 -> 60, >= 0.01 -> 40, else 20,
\* boundaries included; without one it is the name-derived estimate, which
\* lies in [20, 100].
C19_PriceScore ==
    rankPc = "done" =>
        \A i \in 1..Len(ranked) :
            LET d == InputOf(ranked[i])
                priceScore == ranked[i].priceScore
            IN  IF d.listingPrice # undefined
                THEN LET price == d.listingPrice[1] IN
                     priceScore =
                        IF AtLeastWei(price, 5, weiDigits - 1) THEN 100
                        ELSE IF AtLeastWei(price, 1, weiDigits - 1) THEN 80
                        ELSE IF AtLeastWei(price, 5, weiDigits - 2) THEN 60
                        ELSE IF AtLeastWei(price, 1, weiDigits - 2) THEN 40
                        ELSE 20
                ELSE /\ priceScore = estimatePriceScore(d)
                     /\ priceScore \in 20..100

\* a record listed at exactly 0.05 of the canonical unit is scored 60
C19_Witness ==
    /\ rankPc = "done"
    /\ \E i \in 1..Len(ranked) :
          /\ InputOf(ranked[i]).listingPrice = ListingPrice(5, weiDigits - 2)
          /\ ranked[i].priceScore = 60

\* the activityScore tier of a count
ActivityTier(count) ==
    IF count >= 10 THEN 100
    ELSE IF count >= 5 THEN 80
    ELSE IF count >= 3 THEN 60
    ELSE IF count >= 2 THEN 40
    ELSE 20

\* C20: the activityScore of a returned element is the tier of the
\* activityCount of its input record (>= 10 -> 100, >= 5 -> 80, >= 3 -> 60,
\* >= 2 -> 40, else 20; a missing or zero count gets 20), and the activityCount
\* it reports is the activityCount of the input record.
C20_ActivityScore ==
    rankPc = "done" =>
        \A i \in 1..Len(ranked) :
            /\ ranked[i].activityScore = ActivityTier(SuppliedActivityCount(ranked[i]))
            /\ Some(ranked[i].activityCount) = InputOf(ranked[i]).activityCount

\* the label and the TLD the ranker reads off a name: the lower-cased name up
\* to its first '.', and after its last '.' (the whole name when it has none)
LabelOf(name) ==
    LET lower == toLowerCase(name)
        dots == {i \in 1..Len(lower) : lower[i] = "."}
    IN  IF dots = {} THEN lower
        ELSE SubSeq(lower, 1, (CHOOSE i \in dots : \A j \in dots : i <= j) - 1)
SuffixOf(name) ==
    LET lower == toLowerCase(name)
        dots == {i \in 1..Len(lower) : lower[i] = "."}
    IN  IF dots = {} THEN lower
        ELSE SubSeq(lower, (CHOOSE i \in dots : \A j \in dots : j <= i) + 1, Len(lower))

\* k letters followed by m digits, or m digits followed by k letters, with
\* 1 <= k <= 4 and 1 <= m <= 3
LettersThenDigits(label) ==
    \E k \in 1..4 : \E m \in 1..3 :
        /\ Len(label) = k + m
        /\ \/ OnlyLetters(SubSeq(label, 1, k)) /\ OnlyDigits(SubSeq(label, k + 1, k + m))
           \/ OnlyDigits(SubSeq(label, 1, m)) /\ OnlyLetters(SubSeq(label, m + 1, m + k))

IsListedWord(label) == \E i \in 1..Len(commonWords) : commonWords[i] = label

\* the sum of the bonuses of C21 for a name, before the cap
CharacteristicsSum(name) ==
    LET label == LabelOf(name)
        tld == SuffixOf(name)
    IN  50
        + (IF Len(label) <= 3 THEN 30 ELSE IF Len(label) <= 5 THEN 20
           ELSE IF Len(label) <= 7 THEN 10 ELSE 0)
        + (CASE tld = <<"c", "o", "m">> -> 15 [] tld = <<"a", "i">> -> 12 [] tld = <<"e", "t", "h">> -> 10
             [] tld = <<"s", "o", "l">> -> 8 [] tld = <<"i", "o">> -> 6 [] OTHER -> 0)
        + (IF LettersThenDigits(label) THEN 10 ELSE 0)
        + (IF IsListedWord(label) THEN 15 ELSE 0)

\* C21: characteristicsScore is min(100, 50 + length bonus + TLD bonus + 10
\* for a label of 1-4 letters and 1-3 digits in either order + 15 for a label
\* of the word list); it lies in [50, 100], and both of the last two bonuses
\* are given to a label that earns both.
C21_CharacteristicsScore ==
    rankPc = "done" =>
        \A i \in 1..Len(ranked) :
            /\ ranked[i].characteristicsScore =
                  Min(100, CharacteristicsSum(InputOf(ranked[i]).name[1]))
            /\ ranked[i].characteristicsScore \in 50..100

\* a label that earns the pattern and the word bonus, below the cap
C21_Witness ==
    /\ rankPc = "done"
    /\ \E i \in 1..Len(ranked) :
          LET label == LabelOf(InputOf(ranked[i]).name[1]) IN
          /\ LettersThenDigits(label)
          /\ IsListedWord(label)
          /\ ranked[i].characteristicsScore = 95

-----------------------------------------------------------------------------
(* C22: the same array and limit, ranked twice *)

\* every record with a name and a tokenizedAt is in the same age group at the
\* second call as at the first
SameGroupsAtBothCalls ==
    \A k \in 1..Len(domains) :
        IsValidAt(k) => AgeGroupAt(domains[k], now) = AgeGroupAt(domains[k], rankedAt)

\* C22 as stated: a second call of execute with the same array and the same
\* limit returns the same sequence of records with the same scores, whenever
\* it is made.
C22_Original == rankPc = "again" => rankedAgain = ranked

\* C22 amended: a second call of execute with the same array and the same
\* limit returns the same sequence of records with the same scores when fewer
\* than 20 records have a name and a tokenizedAt, or when each of them is, at
\* the second call as at the first, tokenized within the last 7 days, or
\* earlier, or at no date.
C22_Amended ==
    rankPc = "again" =>
        LET validCount == ValidCount IN
        (validCount < mixThreshold \/ SameGroupsAtBothCalls) => rankedAgain = ranked

\* a second call made later, on 20 or more records none of which changed its
\* age group
C22_Witness ==
    /\ rankPc = "again"
    /\ now > rankedAt
    /\ Len(ranked) >= 2
    /\ ValidCount >= mixThreshold
    /\ SameGroupsAtBothCalls

-----------------------------------------------------------------------------
(* C23: execute leaves its input alone *)

-----------------------------------------------------------------------------
(* C24: the 30 days of step 1 *)

\* C24: no returned domain has a tokenizedAt more than 30 days before the call.
C24_WithinThirtyDays ==
    rankPc = "done" =>
        \A i \in 1..Len(ranked) :
            ~Below(getTime(ranked[i].tokenizedAt[1]), rankedAt - monthDays)

-----------------------------------------------------------------------------
(* C25: what is scored and what is returned *)

\* the input positions of the records that filterRecentDomains hands to the
\* scoring step of the call
ScoredAtCall ==
    LET recentDomains == filterRecentDomains(domains, rankedAt)
    IN  {recentDomains[i].obj : i \in 1..Len(recentDomains)}

\* every returned element is the scored form of an input record that has a name
\* and a tokenizedAt, and no input record is returned twice
ReturnedFromValidInputs ==
    /\ \A i \in 1..Len(ranked) : IsValidAt(ranked[i].src)
    /\ \A i \in 1..Len(ranked) : \A j \in (i + 1)..Len(ranked) :
          ranked[i].src # ranked[j].src

\* C25 as stated: every returned element comes from an input record with a name
\* and a tokenizedAt, each input record gives at most one returned element, and
\* with 20 or more valid input records the scored ones are at most 35, each
\* among the first 20 tokenized within 7 days or the first 15 tokenized earlier.
C25_Original ==
    rankPc = "done" =>
        LET validCount == ValidCount
            fromFilter == ScoredAtCall
        IN  /\ ReturnedFromValidInputs
            /\ validCount >= mixThreshold =>
                 /\ Cardinality(fromFilter) <= recentTake + olderTake
                 /\ \A k \in fromFilter :
                       /\ AgeGroup(domains[k]) # "none"
                       /\ PlaceInGroup(k) <=
                            (IF TokenizedRecently(domains[k]) THEN recentTake
                             ELSE olderTake)

\* C25 amended: every returned element comes from an input record with a name
\* and a tokenizedAt, each input record gives at most one returned element, and
\* with 20 or more valid input records the scored ones are the first 20
\* tokenized within 7 days and the first 15 tokenized earlier, at most 35, or,
\* when no tokenizedAt of a valid record is a date, the first 50 valid records.
C25_Amended ==
    rankPc = "done" =>
        LET validCount == ValidCount
            fromFilter == ScoredAtCall
            candidates == Candidates
            undated ==
                \A k \in 1..Len(domains) :
                    IsValidAt(k) => AgeGroup(domains[k]) = "none"
        IN  /\ ReturnedFromValidInputs
            /\ fromFilter = candidates
            /\ validCount >= mixThreshold =>
                 Cardinality(fromFilter) <=
                     (IF undated THEN fallbackTake ELSE recentTake + olderTake)

\* more than 50 valid records, none with a date: the first 50 are scored
C25_Witness ==
    /\ rankPc = "done"
    /\ ValidCount > fallbackTake
    /\ Cardinality(ScoredAtCall) = fallbackTake
    /\ ranked # <<>>

-----------------------------------------------------------------------------
(* C26: the ultra simple algorithm *)

\* the record at position k has a tokenizedAt that is a date no more than 30
\* days before the call
WithinThirtyDaysAt(k) ==
    /\ IsPresent(domains[k].tokenizedAt)
    /\ AgeGroupAt(domains[k], rankedAt) # "none"
    /\ getTime(domains[k].tokenizedAt[1])[1] >= rankedAt - monthDays

-----------------------------------------------------------------------------
(* C27: fetchTrendingDomains never rejects *)

\* the names of the domains of a response, in order
NamesOf(response) == <<>> \o [i \in 1..Len(response.domains) |-> response.domains[i].name]

\* C27: however fetchTrendingDomains(limit) ends, its promise is fulfilled with
\* a response of at most limit domains whose totalCount is their number; with
\* no API key, or when the efficient service or a later step of the API branch
\* throws, the domains are the first limit of the curated popular domains.
C27_ResolvesWithinLimit ==
    trendPc \notin {"idle", "awaiting"} =>
        /\ trendResponse.status = "fulfilled"
        /\ Len(trendResponse.value.domains) <= trendLimit
        /\ trendResponse.value.totalCount = Len(trendResponse.value.domains)
        /\ trendPc \in {"noKey", "serviceFailed", "rankingFailed"} =>
              NamesOf(trendResponse.value) = slice(POPULAR_DOMAINS, trendLimit)

\* the ranking step threw and the whole curated list came back for a limit
\* above its length
C27_Witness ==
    /\ trendPc = "rankingFailed"
    /\ trendLimit > Len(POPULAR_DOMAINS)
    /\ trendResponse.status = "fulfilled"
    /\ Len(trendResponse.value.domains) = Len(POPULAR_DOMAINS)

-----------------------------------------------------------------------------
(* C28: fetchDomainData and partial failure *)

\* C28: whichever of the four queries reject, fetchDomainData resolves; a
\* rejected query gives null for domain and stats and [] for listings, offers
\* and activities, and a fulfilled one gives the value it answered with ([] for
\* a list its answer lacks).
C28_PartialFailure ==
    dataPc = "settled" =>
        /\ dataResult.status = "fulfilled"
        /\ LET data == dataResult.value
               Answer(q) == results[q].value
               RejectedQuery(q) == results[q].status = "rejected"
               Same(list, answered) ==
                   IF IsPresent(answered) THEN Some(list) = answered ELSE list = <<>>
           IN  /\ IF RejectedQuery("domain") THEN data.domain = undefined
                  ELSE data.domain = Answer("domain").name
               /\ IF RejectedQuery("stats") THEN data.stats = undefined
                  ELSE data.stats = Answer("stats").nameStatistics
               /\ IF RejectedQuery("listingsOffers")
                  THEN data.listings = <<>> /\ data.offers = <<>>
                  ELSE /\ Same(data.listings, Answer("listingsOffers").listings)
                       /\ Same(data.offers, Answer("listingsOffers").offers)
               /\ IF RejectedQuery("activities") THEN data.activities = <<>>
                  ELSE Same(data.activities, Answer("activities").nameActivities)

\* two queries rejected, two fulfilled with data, and the data of those two in
\* the result
C28_Witness ==
    /\ dataPc = "settled"
    /\ results["domain"].status = "rejected"
    /\ results["activities"].status = "rejected"
    /\ dataResult.status = "fulfilled"
    /\ dataResult.value.stats = Some(SomeStats)
    /\ Len(dataResult.value.offers) = 2
    /\ dataResult.value.domain = undefined

-----------------------------------------------------------------------------
(* C29: the list of fetchEfficientTrendingDomains *)

\* the names of the items of a list of the answer
ItemNames(items) == {items[i].name : i \in 1..Len(items)}

\* entry e was made from an item of the highest-priority list that names it
FromBestSource(e) ==
    IF e.name \in ItemNames(recentListings)
    THEN /\ e.priority = "recent_listing"
         /\ \E i \in 1..Len(recentListings) :
               /\ recentListings[i].name = e.name
               /\ e.listingPrice = Some(recentListings[i].price)
               /\ e.tokenizedAt = recentListings[i].createdAt
    ELSE IF e.name \in ItemNames(domainsWithOffers)
    THEN /\ e.priority = "has_offers"
         /\ \E i \in 1..Len(domainsWithOffers) :
               /\ domainsWithOffers[i].name = e.name
               /\ e.tokenizedAt = domainsWithOffers[i].tokenizedAt
               /\ e.activeOffersCount = domainsWithOffers[i].activeOffersCount
    ELSE /\ e.priority = "listed"
         /\ \E i \in 1..Len(listedDomains) :
               /\ listedDomains[i].name = e.name
               /\ e.tokenizedAt = listedDomains[i].tokenizedAt

\* C29: the list fetchEfficientTrendingDomains returns holds each domain name
\* at most once, each entry made from the highest-priority list that names the
\* domain (recent listings, then domains with offers, then listed domains); it
\* is in non-increasing order of combinedScore, has at most limit entries, and
\* has an entry for every name of the answer when limit allows.
C29_OnePerNameBestSource ==
    effPc = "done" =>
        LET result == effResult.value
            allNames == ItemNames(recentListings) \cup ItemNames(domainsWithOffers)
                        \cup ItemNames(listedDomains)
        IN  /\ \A i \in 1..Len(result) : \A j \in (i + 1)..Len(result) :
                  /\ result[i].name # result[j].name
                  /\ result[i].combinedScore >= result[j].combinedScore
            /\ \A i \in 1..Len(result) : FromBestSource(result[i])
            /\ Len(result) = Min(effLimit, Cardinality(allNames))

\* a name in two lists of the answer, its entry in the result, and another
\* name that limit kept out
C29_Witness ==
    /\ effPc = "done"
    /\ \E i \in 1..Len(effResult.value) :
          /\ effResult.value[i].name \in ItemNames(recentListings)
          /\ effResult.value[i].name \in ItemNames(domainsWithOffers)
    /\ Len(effResult.value) = effLimit
    /\ Cardinality(ItemNames(recentListings) \cup ItemNames(domainsWithOffers)
                   \cup ItemNames(listedDomains)) > effLimit

-----------------------------------------------------------------------------
(* C30: overlapping searches on the analytics page *)

\* C30: isLoading is true while a search is in flight, and once none is the
\* page shows isLoading false and the domainData, or the error, of the search
\* started last, and nothing of an earlier one.
C30_LatestSearchShown ==
    /\ inFlight # {} => pageLoading
    /\ (inFlight = {} /\ started # <<>>) =>
          LET latest == started[Len(started)] IN
          /\ ~pageLoading
          /\ \/ pageData = Some(analyticsOf(latest)) /\ pageError = <<>>
             \/ pageError = Some(messageOf(latest)) /\ pageData = <<>>
=============================================================================
